---- MODULE Spec2Model ----
(***************************************************************************)
(* A model of the AI testing agent's test-execution pipeline:              *)
(*   - JestTestRunner / PlaywrightTestRunner (utils/testRunner.ts)         *)
(*   - TestReporter (utils/testReporter.ts)                                *)
(*   - AITestGenerator (utils/testGenerator.ts)                            *)
(*   - AgentManager (core/agentManager.ts)                                 *)
(*   - TestManager (core/testManager.ts)                                   *)
(* External systems (the child process, the LLM, the file system) are the  *)
(* environment: their outcomes are inputs chosen with \E.                  *)
(***************************************************************************)
EXTENDS Integers, Sequences, FiniteSets, TLC

VARIABLES
    pc,        \* position of the call in progress
    call,      \* the public operation in progress ("none" before any call)
    config,    \* the loaded Config: [apiKey, agents]
    agents,    \* AgentManager.agents: agent ids in Map insertion order
    framework, \* the TestFramework of the call
    runner,    \* the runner chosen by getTestRunner: "jest" | "playwright" | "none"
    exec,      \* the settled outcome of the last execPromise(...)
    results,   \* the TestResult[] returned by runTests
    analysis,  \* the value returned by analyzeResults
    outcome,   \* how the call in progress settled: pending / resolved / rejected
    dirs,      \* the directories that exist
    files,     \* the file system: path -> content
    testCases, \* generateAndRunTests' local: the parsed test cases
    testCode,  \* generateAndRunTests' local: the rendered test code
    formats,   \* the report formats the call was given (an absent list reads as empty)
    reportPaths, \* runner.generateReport's local: the paths written so far
    clock,     \* the system clock: the index in ClockValues of the last value read
    steps,     \* the pipeline steps started so far, in order
    faults,    \* the failures the environment has injected so far
    lastOptions, \* the arguments of the last direct call (generateReport: its ReportOptions)
    runs,      \* concurrent TestManager calls: run id -> the call's locals
    openaiAgent, \* the OpenAIAgent that direct calls act on
    llmCalls   \* the chat completion requests sent to the API so far

vars == <<pc, call, config, agents, framework, runner, exec, results, analysis,
          outcome, dirs, files, testCases, testCode, formats, reportPaths,
          clock, steps, faults, lastOptions, runs, openaiAgent, llmCalls>>

----------------------------------------------------------------------------
(* Bounds of the model *)

MaxSuites == 2
MaxAssertions == 2
MaxPwTests == 1
MaxDepth == 1
MaxResults == 2
MaxFormats == 2

----------------------------------------------------------------------------
(* JavaScript values *)

\* the value of a property that is `undefined`
Undefined == "<undefined>"

\* JavaScript truthiness of a string-or-undefined value
Truthy(s) == s # "" /\ s # Undefined

\* a || b on string-or-undefined values
OrElse(a, b) == IF Truthy(a) THEN a ELSE b

\* obj.field, `undefined` when the property is absent
Get(obj, field) == IF field \in DOMAIN obj THEN obj[field] ELSE Undefined

\* obj.field || 0 on a numeric property (absent, null and 0 all give 0)
NumOrZero(obj, field) == IF field \in DOMAIN obj THEN obj[field] ELSE 0

SeqsUpTo(S, n) == UNION {[1..k -> S] : k \in 0..n}

RECURSIVE Join(_, _)
\* Array.prototype.join(sep)
Join(strs, sep) ==
    IF Len(strs) = 0 THEN ""
    ELSE IF Len(strs) = 1 THEN strs[1]
    ELSE strs[1] \o sep \o Join(Tail(strs), sep)

RECURSIVE Concat(_)
\* the concatenation of a sequence of sequences
Concat(ss) == IF Len(ss) = 0 THEN <<>> ELSE ss[1] \o Concat(Tail(ss))

RECURSIVE SumDurations(_, _)
\* results.reduce((acc, r) => acc + r.duration, acc0)
SumDurations(rs, acc) ==
    IF Len(rs) = 0 THEN acc ELSE SumDurations(Tail(rs), acc + rs[1].duration)

\* a settled promise / a completed or aborted block
Resolved(v) == [threw |-> FALSE, value |-> v]
Rejected(e) == [threw |-> TRUE, error |-> e]

\* new Error(message): an Error object carries no stdout property
NewError(m) == [message |-> m]

----------------------------------------------------------------------------
(* The child process: execPromise(`npx <tool> ...`) *)

\* captured stdout text: "" | text that is no JSON document | a JSON document
EmptyStdout == [kind |-> "empty"]
GarbageStdout == [kind |-> "text", text |-> "not json"]
JsonStdout(doc) == [kind |-> "json", doc |-> doc]

\* JSON.parse(text): the decoded value, or a SyntaxError
JSONParse(stdout) ==
    IF stdout.kind = "json" THEN Resolved(stdout.doc)
    ELSE IF stdout.kind = "empty"
         THEN Rejected(NewError("Unexpected end of JSON input"))
         ELSE Rejected(NewError("Unexpected token o in JSON at position 1"))

\* (error as any).stdout of a caught value, as a truth value: a non-empty string
HasStdout(error) == "stdout" \in DOMAIN error /\ error.stdout.kind # "empty"

\* the outcomes of exec over the documents `docs`:
\*   exit 0 resolves {stdout, stderr}; a non-zero exit rejects with an error that
\*   carries the captured stdout; a tool that cannot be started rejects with an
\*   error whose stdout is empty
ExecOutcomes(docs) ==
    LET outs == {EmptyStdout, GarbageStdout} \cup {JsonStdout(d) : d \in docs}
    IN  {Resolved([stdout |-> s]) : s \in outs}
        \cup {Rejected([message |-> "Command failed: exit code 1", stdout |-> s]) : s \in outs}
        \cup {Rejected([message |-> "spawn npx ENOENT", stdout |-> EmptyStdout])}

ProcessFailed(e) == e.threw
ProcessNotStarted(e) == e.threw /\ e.error.stdout.kind = "empty"

----------------------------------------------------------------------------
(* JestTestRunner *)

\* assertion records of a Jest --json document (optional properties may be absent)
JestAssertions ==
    { [fullName |-> "s a", title |-> "a", status |-> "passed",
       failureMessages |-> <<>>, duration |-> 10],
      [fullName |-> "s b", title |-> "b", status |-> "failed",
       failureMessages |-> <<"boom">>, duration |-> 5],
      [title |-> "c", status |-> "pending"],
      [fullName |-> "", title |-> "d", status |-> "failed",
       failureMessages |-> <<"x", "y">>] }

JestSuites == {[assertionResults |-> as] : as \in SeqsUpTo(JestAssertions, MaxAssertions)}

RECURSIVE CountAssertions(_)
CountAssertions(ts) ==
    IF Len(ts) = 0 THEN 0 ELSE Len(ts[1].assertionResults) + CountAssertions(Tail(ts))

\* Jest documents of up to MaxSuites suites and MaxAssertions assertions in all,
\* and one JSON document that lacks the expected properties
JestDocs ==
    {[testResults |-> ts] :
        ts \in {x \in SeqsUpTo(JestSuites, MaxSuites) : CountAssertions(x) <= MaxAssertions}}
    \cup {[numTotalTests |-> 0]}

\* a document of one suite: a passed assertion (10 ms) and a failed one ("boom", 5 ms)
ExampleJestDoc ==
    [testResults |-> <<[assertionResults |->
        <<[fullName |-> "s a", title |-> "a", status |-> "passed",
           failureMessages |-> <<>>, duration |-> 10],
          [fullName |-> "s b", title |-> "b", status |-> "failed",
           failureMessages |-> <<"boom">>, duration |-> 5]>>]>>]

\* `for (... of x.testResults)` / `for (... of y.assertionResults)` throw a
\* TypeError when the property is not iterable
JestIterable(jestResults) ==
    /\ "testResults" \in DOMAIN jestResults
    /\ \A i \in 1..Len(jestResults.testResults) :
           "assertionResults" \in DOMAIN jestResults.testResults[i]

\* a decoder that reads a property the document does not carry
JestAssertionToResultNoDuration(assertionResult) ==
    [testId |-> OrElse(Get(assertionResult, "fullName"), Get(assertionResult, "title")),
     passed |-> Get(assertionResult, "status") = "passed",
     error |-> IF "failureMessages" \in DOMAIN assertionResult
               THEN OrElse(Join(assertionResult.failureMessages, "\n"), Undefined)
               ELSE Undefined,
     duration |-> NumOrZero(assertionResult, "time")]

JestAssertionToResult(assertionResult) ==
    [testId |-> OrElse(Get(assertionResult, "fullName"), Get(assertionResult, "title")),
     passed |-> Get(assertionResult, "status") = "passed",
     error |-> IF "failureMessages" \in DOMAIN assertionResult
               THEN OrElse(Join(assertionResult.failureMessages, "\n"), Undefined)
               ELSE Undefined,
     duration |-> NumOrZero(assertionResult, "duration")]

JestSuiteResults(testResult) ==
    [i \in 1..Len(testResult.assertionResults) |->
        JestAssertionToResult(testResult.assertionResults[i])]

\* a decoder that stops after the first suite
ParseJestResultsFirstSuite(jestResults) ==
    IF JestIterable(jestResults)
    THEN Resolved(IF Len(jestResults.testResults) = 0 THEN <<>>
                  ELSE JestSuiteResults(jestResults.testResults[1]))
    ELSE Rejected(NewError("jestResults.testResults is not iterable"))

\* parseJestResults: one TestResult per assertion, suites in order
ParseJestResults(jestResults) ==
    IF JestIterable(jestResults)
    THEN Resolved(Concat([i \in 1..Len(jestResults.testResults) |->
                            JestSuiteResults(jestResults.testResults[i])]))
    ELSE Rejected(NewError("jestResults.testResults is not iterable"))

\* the single failing result returned when the run could not be decoded
ExecutionError(error) ==
    [testId |-> "test-execution-error", passed |-> FALSE,
     error |-> error.message, duration |-> 0]

\* the inner try/catch of the success path: JSON.parse + parseJestResults,
\* any throw re-thrown as "Failed to parse Jest results: ..."
JestDecode(stdout) ==
    LET parsed == JSONParse(stdout)
        decoded == IF parsed.threw THEN parsed ELSE ParseJestResults(parsed.value)
    IN  IF decoded.threw
        THEN Rejected(NewError("Failed to parse Jest results: " \o decoded.error.message))
        ELSE decoded

\* the body of the outer try block
JestTry(e) == IF e.threw THEN e ELSE JestDecode(e.value.stdout)

\* the outer catch block: decode error.stdout when there is one, else (or when
\* that fails too) return the single test-execution-error result
JestCatch(error) ==
    LET parsed == IF HasStdout(error) THEN JSONParse(error.stdout)
                  ELSE Rejected(NewError("no stdout"))
        decoded == IF parsed.threw THEN parsed ELSE ParseJestResults(parsed.value)
    IN  IF decoded.threw THEN Resolved(<<ExecutionError(error)>>) ELSE decoded

\* a runTests without the outer catch block
JestRunTestsUncaught(e) == JestTry(e)

\* JestTestRunner.runTests, given how the child process settled
JestRunTests(e) ==
    LET body == JestTry(e)
    IN  IF body.threw THEN JestCatch(body.error) ELSE body

----------------------------------------------------------------------------
(* PlaywrightTestRunner *)

\* test records of a Playwright JSON report (one per run of a spec)
PwTests ==
    { [status |-> "passed", duration |-> 7],
      [status |-> "expected"],
      [status |-> "failed", duration |-> 3, errors |-> <<[message |-> "boom"]>>],
      [status |-> "timedOut", duration |-> -1, errors |-> <<[value |-> "x"]>>] }

PwSpecs == {[title |-> "t1", tests |-> ts] : ts \in SeqsUpTo(PwTests, MaxPwTests)}

PwTitle(depth) == IF depth = 0 THEN "A" ELSE IF depth = 1 THEN "B" ELSE "C"

RECURSIVE PwSuitesAt(_, _)
\* suite trees whose root is at nesting level `depth`, nesting down to `maxDepth`
PwSuitesAt(depth, maxDepth) ==
    LET leaves == {[title |-> PwTitle(depth), specs |-> sp] : sp \in SeqsUpTo(PwSpecs, 1)}
    IN  IF depth >= maxDepth THEN leaves
        ELSE leaves \cup
             {[title |-> PwTitle(depth), specs |-> sp, suites |-> <<ch>>] :
                  sp \in SeqsUpTo(PwSpecs, 1), ch \in PwSuitesAt(depth + 1, maxDepth)}

\* Playwright documents: no suites property, or up to one root suite tree
PlaywrightDocs ==
    {[config |-> "c"]} \cup {[suites |-> ss] : ss \in SeqsUpTo(PwSuitesAt(0, MaxDepth), 1)}

\* a document of root suite "A", child suite "B", spec "t1", one test "expected"
ExamplePlaywrightDoc ==
    [suites |-> <<[title |-> "A", specs |-> <<>>,
                   suites |-> <<[title |-> "B",
                                 specs |-> <<[title |-> "t1",
                                              tests |-> <<[status |-> "expected"]>>]>>]>>]>>]

\* JSON.stringify(e) of an error object without a message
JSONStringifyError(e) == "{\"value\":\"" \o e.value \o "\"}"

\* test.errors?.map(e => e.message || JSON.stringify(e)).join('\n') || undefined
PwErrorText(test) ==
    IF "errors" \in DOMAIN test
    THEN OrElse(Join([i \in 1..Len(test.errors) |->
                        IF Truthy(Get(test.errors[i], "message"))
                        THEN test.errors[i].message
                        ELSE JSONStringifyError(test.errors[i])], "\n"),
                Undefined)
    ELSE Undefined

PwTestToResult(suite, spec, test) ==
    \* `${suite.title} <sep> ${spec.title}`; the separator (U+203A) is written ">"
    [testId |-> suite.title \o " > " \o spec.title,
     passed |-> test.status = "passed" \/ test.status = "expected",
     error |-> PwErrorText(test),
     duration |-> NumOrZero(test, "duration")]

PwSpecResults(suite, spec) ==
    IF "tests" \in DOMAIN spec
    THEN [i \in 1..Len(spec.tests) |-> PwTestToResult(suite, spec, spec.tests[i])]
    ELSE <<>>

\* an extraction that does not descend into child suites
ExtractPlaywrightTestResultsShallow(suite) ==
    IF "specs" \in DOMAIN suite
    THEN Concat([i \in 1..Len(suite.specs) |-> PwSpecResults(suite, suite.specs[i])])
    ELSE <<>>

RECURSIVE ExtractPlaywrightTestResults(_)
\* extractPlaywrightTestResults: the suite's own specs first, then its child suites
ExtractPlaywrightTestResults(suite) ==
    LET own == IF "specs" \in DOMAIN suite
               THEN Concat([i \in 1..Len(suite.specs) |-> PwSpecResults(suite, suite.specs[i])])
               ELSE <<>>
        below == IF "suites" \in DOMAIN suite
                 THEN Concat([i \in 1..Len(suite.suites) |->
                                 ExtractPlaywrightTestResults(suite.suites[i])])
                 ELSE <<>>
    IN  own \o below

\* parsePlaywrightResults: pwResults.suites || []
ParsePlaywrightResults(pwResults) ==
    IF "suites" \in DOMAIN pwResults
    THEN Resolved(Concat([i \in 1..Len(pwResults.suites) |->
                            ExtractPlaywrightTestResults(pwResults.suites[i])]))
    ELSE Resolved(<<>>)

\* the inner try/catch of the success path
PlaywrightDecode(stdout) ==
    LET parsed == JSONParse(stdout)
        decoded == IF parsed.threw THEN parsed ELSE ParsePlaywrightResults(parsed.value)
    IN  IF decoded.threw
        THEN Rejected(NewError("Failed to parse Playwright results: " \o decoded.error.message))
        ELSE decoded

\* the body of the outer try block
PlaywrightTry(e) == IF e.threw THEN e ELSE PlaywrightDecode(e.value.stdout)

\* a catch block that re-throws what it caught
PlaywrightCatchRethrows(error) == Rejected(error)

\* the outer catch block: always the single test-execution-error result
PlaywrightCatch(error) == Resolved(<<ExecutionError(error)>>)

\* PlaywrightTestRunner.runTests, given how the child process settled
PlaywrightRunTests(e) ==
    LET body == PlaywrightTry(e)
    IN  IF body.threw THEN PlaywrightCatch(body.error) ELSE body

----------------------------------------------------------------------------
(* analyzeResults (both runners) *)

\* a JavaScript number that is a ratio, kept exact: num / den
Ratio(n, d) == [num |-> n, den |-> d]

\* the division without the guard for an empty sequence
PassRateUnguarded(passedCount, total) == Ratio(passedCount * 100, total)

\* results.length ? (passed.length / results.length) * 100 : 0
PassRate(passedCount, total) ==
    IF total # 0 THEN Ratio(passedCount * 100, total) ELSE Ratio(0, 1)

FailedTestRef(f) == [testId |-> f.testId, error |-> f.error]

\* an aggregation whose failed subset is not the complement of the passed one
JestAnalyzeResultsMiscount(rs) ==
    LET passed == SelectSeq(rs, LAMBDA r : r.passed)
        failed == SelectSeq(rs, LAMBDA r : r.error # Undefined)
        totalDuration == SumDurations(rs, 0)
    IN  [summary |-> [total |-> Len(rs),
                      passed |-> Len(passed),
                      failed |-> Len(failed),
                      passRate |-> PassRate(Len(passed), Len(rs)),
                      totalDuration |-> totalDuration],
         failedTests |-> [i \in 1..Len(failed) |-> FailedTestRef(failed[i])]]

JestAnalyzeResults(rs) ==
    LET passed == SelectSeq(rs, LAMBDA r : r.passed)
        failed == SelectSeq(rs, LAMBDA r : ~r.passed)
        totalDuration == SumDurations(rs, 0)
    IN  [summary |-> [total |-> Len(rs),
                      passed |-> Len(passed),
                      failed |-> Len(failed),
                      passRate |-> PassRate(Len(passed), Len(rs)),
                      totalDuration |-> totalDuration],
         failedTests |-> [i \in 1..Len(failed) |-> FailedTestRef(failed[i])]]

\* an aggregation that lists every result among the failed tests
PlaywrightAnalyzeResultsListsAll(rs) ==
    LET passed == SelectSeq(rs, LAMBDA r : r.passed)
        failed == SelectSeq(rs, LAMBDA r : ~r.passed)
        totalDuration == SumDurations(rs, 0)
    IN  [summary |-> [total |-> Len(rs),
                      passed |-> Len(passed),
                      failed |-> Len(failed),
                      passRate |-> PassRate(Len(passed), Len(rs)),
                      totalDuration |-> totalDuration],
         failedTests |-> [i \in 1..Len(rs) |-> FailedTestRef(rs[i])]]

PlaywrightAnalyzeResults(rs) ==
    LET passed == SelectSeq(rs, LAMBDA r : r.passed)
        failed == SelectSeq(rs, LAMBDA r : ~r.passed)
        totalDuration == SumDurations(rs, 0)
    IN  [summary |-> [total |-> Len(rs),
                      passed |-> Len(passed),
                      failed |-> Len(failed),
                      passRate |-> PassRate(Len(passed), Len(rs)),
                      totalDuration |-> totalDuration],
         failedTests |-> [i \in 1..Len(failed) |-> FailedTestRef(failed[i])]]

Runners == {"jest", "playwright"}

RunTests(r, e) == IF r = "jest" THEN JestRunTests(e) ELSE PlaywrightRunTests(e)

AnalyzeResults(r, rs) ==
    IF r = "jest" THEN JestAnalyzeResults(rs) ELSE PlaywrightAnalyzeResults(rs)

RunnerDocs(r) == IF r = "jest" THEN JestDocs ELSE PlaywrightDocs

----------------------------------------------------------------------------
(* TestReporter *)

\* JSON null
Null == "<null>"

ReportFormats == {"json", "xml"}

\* format values a caller can pass: the casts `f as ReportFormat` validate nothing
FormatValues == ReportFormats \cup {"html"}

\* values of new Date().toISOString(), in the order of time
ClockValues == <<"2024-01-01T10:00:00.000Z", "2024-01-01T10:00:00.001Z">>

\* the indices of the values the clock can show next (it does not run backwards)
ClockReadings(last) == {t \in 1..Len(ClockValues) : t >= last}

RECURSIVE ReplaceAll(_, _, _)
\* s.replace(/<ch>/g, rep) for a one-character pattern
ReplaceAll(s, ch, rep) ==
    IF Len(s) = 0 THEN ""
    ELSE (IF Head(s) = ch THEN rep ELSE Head(s)) \o ReplaceAll(Tail(s), ch, rep)

\* the five replacements with the ampersand replaced last
EscapeXmlAmpersandLast(unsafe) ==
    LET s0 == IF unsafe = Undefined THEN "" ELSE unsafe
        s1 == ReplaceAll(s0, "<", "&lt;")
        s2 == ReplaceAll(s1, ">", "&gt;")
        s3 == ReplaceAll(s2, "\"", "&quot;")
        s4 == ReplaceAll(s3, "'", "&apos;")
    IN  ReplaceAll(s4, "&", "&amp;")

\* escapeXml(unsafe = ''): five replacements, in this order
EscapeXml(unsafe) ==
    LET s0 == IF unsafe = Undefined THEN "" ELSE unsafe
        s1 == ReplaceAll(s0, "&", "&amp;")
        s2 == ReplaceAll(s1, "<", "&lt;")
        s3 == ReplaceAll(s2, ">", "&gt;")
        s4 == ReplaceAll(s3, "\"", "&quot;")
    IN  ReplaceAll(s4, "'", "&apos;")

\* JSON.stringify drops a property whose value is undefined
StringifyFailedRef(f) == IF f.error = Undefined THEN [testId |-> f.testId] ELSE f

\* a report whose tests array lists the failing results only
GenerateJsonReportFailingOnly(rs, an, now) ==
    LET failing == SelectSeq(rs, LAMBDA r : ~r.passed)
    IN  [kind |-> "json",
         timestamp |-> now,
         summary |-> an.summary,
         tests |-> [i \in 1..Len(failing) |->
                      [id |-> failing[i].testId,
                       status |-> "failed",
                       duration |-> failing[i].duration,
                       error |-> OrElse(failing[i].error, Null)]],
         failures |-> [i \in 1..Len(an.failedTests) |-> StringifyFailedRef(an.failedTests[i])]]

\* generateJsonReport: the document that JSON.stringify serialises
GenerateJsonReport(rs, an, now) ==
    [kind |-> "json",
     timestamp |-> now,
     summary |-> an.summary,
     tests |-> [i \in 1..Len(rs) |->
                  [id |-> rs[i].testId,
                   status |-> IF rs[i].passed THEN "passed" ELSE "failed",
                   duration |-> rs[i].duration,
                   error |-> OrElse(rs[i].error, Null)]],
     failures |-> [i \in 1..Len(an.failedTests) |-> StringifyFailedRef(an.failedTests[i])]]

\* one <testcase> element; `time` is kept in milliseconds (the text is
\* (duration / 1000).toFixed(2))
XmlTestcase(result) ==
    IF ~result.passed
    THEN [name |-> EscapeXml(result.testId), time |-> result.duration,
          failure |-> <<[message |-> EscapeXml(OrElse(result.error, "Test failed")),
                         body |-> EscapeXml(OrElse(result.error, ""))]>>]
    ELSE [name |-> EscapeXml(result.testId), time |-> result.duration, failure |-> <<>>]

\* generateXmlReport: the JUnit-style document, as its element tree
GenerateXmlReport(rs, an, now) ==
    [kind |-> "xml",
     testsuites |-> [name |-> "AI Testing Agent Results",
                     time |-> an.summary.totalDuration,
                     tests |-> an.summary.total,
                     failures |-> an.summary.failed,
                     timestamp |-> now],
     testsuite |-> [name |-> "TestSuite",
                    tests |-> an.summary.total,
                    failures |-> an.summary.failed,
                    time |-> an.summary.totalDuration],
     testcases |-> [i \in 1..Len(rs) |-> XmlTestcase(rs[i])]]

\* `test-report${timestamp}.${format}` unless a filename is supplied
ReportFilename(format, filename, includeTimestamp, now) ==
    LET timestamp == IF includeTimestamp THEN "-" \o ReplaceAll(now, ":", "-") ELSE ""
    IN  OrElse(filename, "test-report" \o timestamp \o "." \o format)

\* path.join(dir, name)
PathJoin(dir, name) == dir \o "/" \o name

\* a write that leaves an existing file as it is
WriteFileKeepsExisting(f, p, c) ==
    [q \in DOMAIN f \cup {p} |-> IF q \in DOMAIN f THEN f[q] ELSE c]

\* f with path p mapped to content c (fs.writeFile replaces the whole file)
WriteFile(f, p, c) == [q \in DOMAIN f \cup {p} |-> IF q = p THEN c ELSE f[q]]

\* TestReporter.generateReport on the file system <<d, f>>, the clock having
\* shown `last`.
\*   options: [format, outputPath, filename, includeTimestamp]
\*   env: what the file system and the clock answer: [mkdirOk, writeOk, named,
\*        rendered], `named` the clock reading that names the file and `rendered`
\*        the later one that the renderer puts in the document
\* Returns the file system and the clock afterwards and how the call settled.
ReporterGenerateReport(d, f, last, rs, an, options, env) ==
    LET filePath == PathJoin(options.outputPath,
                             ReportFilename(options.format, options.filename,
                                            options.includeTimestamp,
                                            ClockValues[env.named]))
        d1 == d \cup {options.outputPath}
    IN  IF ~env.mkdirOk
        THEN [dirs |-> d, files |-> f, clock |-> last,
              result |-> Rejected(NewError("EACCES: permission denied, mkdir"))]
        ELSE IF options.format \notin ReportFormats
        THEN [dirs |-> d1, files |-> f, clock |-> env.named,
              result |-> Rejected(NewError("Unsupported report format: " \o options.format))]
        ELSE IF ~env.writeOk
        THEN [dirs |-> d1, files |-> f, clock |-> env.rendered,
              result |-> Rejected(NewError("EACCES: permission denied, open"))]
        ELSE [dirs |-> d1,
              files |-> WriteFile(f, filePath,
                                  IF options.format = "json"
                                  THEN GenerateJsonReport(rs, an, ClockValues[env.rendered])
                                  ELSE GenerateXmlReport(rs, an, ClockValues[env.rendered])),
              clock |-> env.rendered,
              result |-> Resolved(filePath)]

\* what the file system and the clock answer, the clock having shown `last`
ReportEnvs(last) ==
    {e \in [named : ClockReadings(last), rendered : ClockReadings(last),
             mkdirOk : BOOLEAN, writeOk : BOOLEAN] : e.rendered >= e.named}

----------------------------------------------------------------------------
(* OpenAIAgent and AgentManager *)

OpenAIAgentNew(id) == [id |-> id, name |-> "OpenAI Agent", model |-> "gpt-4", client |-> FALSE]

\* an init that refuses only an absent key
OpenAIAgentInitAcceptsEmptyKey(agent, initConfig) ==
    IF Get(initConfig, "apiKey") = Undefined
    THEN Rejected(NewError("OpenAI API key is required"))
    ELSE Resolved([agent EXCEPT !.client = TRUE,
                                !.model = IF Truthy(Get(initConfig, "model"))
                                          THEN initConfig.model ELSE @])

\* OpenAIAgent.init: the agent afterwards, or the thrown error
OpenAIAgentInit(agent, initConfig) ==
    IF ~Truthy(Get(initConfig, "apiKey"))
    THEN Rejected(NewError("OpenAI API key is required"))
    ELSE Resolved([agent EXCEPT !.client = TRUE,
                                !.model = IF Truthy(Get(initConfig, "model"))
                                          THEN initConfig.model ELSE @])

\* a registry that moves a re-registered id to the end
RegisterAgentMovesToEnd(as, agent) ==
    Append(SelectSeq(as, LAMBDA a : a.id # agent.id), agent)

\* Map.set(agent.id, agent): an existing key keeps its position
RegisterAgent(as, agent) ==
    IF \E i \in 1..Len(as) : as[i].id = agent.id
    THEN [i \in 1..Len(as) |-> IF as[i].id = agent.id THEN agent ELSE as[i]]
    ELSE Append(as, agent)

\* Map.delete(agentId)
UnregisterAgent(as, agentId) == SelectSeq(as, LAMBDA a : a.id # agentId)

\* getDefaultAgent: the first agent in insertion order
GetDefaultAgent(as) ==
    IF Len(as) = 0 THEN Rejected(NewError("No agents available")) ELSE Resolved(as[1])

RECURSIVE InitCustomAgents(_, _, _)
\* the loop over Object.entries(config.agents): a failing init is logged and skipped.
\* Returns [agents, failed]: the registry and the ids whose init threw.
InitCustomAgents(cfg, entries, acc) ==
    IF Len(entries) = 0 THEN acc
    ELSE LET entry == Head(entries)
             r == OpenAIAgentInit(OpenAIAgentNew(entry.id),
                                  [apiKey |-> cfg.apiKeys.openai,
                                   model |-> OrElse(entry.model, cfg.defaultModel)])
         IN  InitCustomAgents(cfg, Tail(entries),
                 IF entry.type # "openai" THEN acc
                 ELSE IF r.threw THEN [acc EXCEPT !.failed = Append(@, entry.id)]
                 ELSE [acc EXCEPT !.agents = RegisterAgent(@, r.value)])

\* an initialize that registers the default agent without looking at the key
AgentManagerInitializeUnchecked(cfg) ==
    InitCustomAgents(cfg, cfg.agents,
                     [agents |-> <<OpenAIAgentNew("openai-default")>>, failed |-> <<>>])

\* AgentManager.initialize
AgentManagerInitialize(cfg) ==
    LET first == IF Truthy(cfg.apiKeys.openai)
                 THEN OpenAIAgentInit(OpenAIAgentNew("openai-default"),
                                      [apiKey |-> cfg.apiKeys.openai,
                                       model |-> cfg.defaultModel])
                 ELSE Rejected(NewError("skipped"))
        as0 == IF first.threw THEN <<>> ELSE RegisterAgent(<<>>, first.value)
    IN  InitCustomAgents(cfg, cfg.agents, [agents |-> as0, failed |-> <<>>])

OutputPath == "output"

\* loaded configurations: with and without an OpenAI key, with and without a
\* custom openai-type agent
Configs ==
    [apiKeys : {[openai |-> k] : k \in {Undefined, "sk-1"}},
     agents : {<<>>, <<[id |-> "custom", type |-> "openai", model |-> Undefined]>>},
     defaultModel : {"gpt-4"},
     outputPath : {OutputPath}]

----------------------------------------------------------------------------
(* AITestGenerator and the LLM *)

\* replies of agent.generateCompletion: an API error, '' (no content), text that
\* is no JSON, a JSON array of test cases, test code
EmptyReply == [kind |-> "empty"]
TextReply == [kind |-> "text", text |-> "not json"]
CasesReply == [kind |-> "json", doc |-> <<[id |-> "test1", description |-> "adds"]>>]
CodeReply(idioms) == [kind |-> "text", text |-> "code", idioms |-> idioms]

\* OpenAIAgent.generateCompletion wraps a failed API call
GenerateCompletion(api) ==
    IF api.threw
    THEN Rejected(NewError("Failed to generate completion: " \o api.error.message))
    ELSE api

\* fs.readFile(path): the content, or an error when the file is absent or unreadable
ReadFile(f, path, ioOk) ==
    IF ioOk /\ path \in DOMAIN f THEN Resolved(f[path])
    ELSE Rejected(NewError("ENOENT: no such file or directory, open '" \o path \o "'"))

\* AITestGenerator.analyzeCode -> parseFile: both wrap the read error
GeneratorAnalyzeCode(f, sourcePath, ioOk) ==
    LET read == ReadFile(f, sourcePath, ioOk)
    IN  IF read.threw
        THEN Rejected(NewError("Failed to analyze code: Failed to parse file "
                               \o sourcePath \o ": " \o read.error.message))
        ELSE Resolved([filePath |-> sourcePath])

\* a generateTestCases that answers an unparsable reply with no test cases
GeneratorGenerateTestCasesLenient(f, parsed, ioOk, api) ==
    LET read == ReadFile(f, parsed.filePath, ioOk)
        reply == GenerateCompletion(api)
        cases == IF reply.threw THEN reply ELSE JSONParse(reply.value)
        inner == IF cases.threw /\ ~reply.threw THEN Resolved(<<>>) ELSE cases
        body == IF read.threw THEN read ELSE inner
    IN  IF body.threw
        THEN Rejected(NewError("Failed to generate test cases: " \o body.error.message))
        ELSE body

\* AITestGenerator.generateTestCases: read the source, one completion, JSON.parse
GeneratorGenerateTestCases(f, parsed, ioOk, api) ==
    LET read == ReadFile(f, parsed.filePath, ioOk)
        reply == GenerateCompletion(api)
        cases == IF reply.threw THEN reply ELSE JSONParse(reply.value)
        inner == IF cases.threw /\ ~reply.threw
                 THEN Rejected(NewError("Failed to parse test cases: " \o cases.error.message))
                 ELSE cases
        body == IF read.threw THEN read ELSE inner
    IN  IF body.threw
        THEN Rejected(NewError("Failed to generate test cases: " \o body.error.message))
        ELSE body

\* the chat completion requests generateTestCases sends: one, once the source is read
GenerateTestCasesRequests(f, parsed, ioOk) ==
    IF ReadFile(f, parsed.filePath, ioOk).threw THEN 0 ELSE 1

\* AITestGenerator.convertToTestCode: one completion, returned as is
GeneratorConvertToTestCode(cases, fw, api) ==
    LET reply == GenerateCompletion(api)
    IN  IF reply.threw
        THEN Rejected(NewError("Failed to convert to test code: " \o reply.error.message))
        ELSE reply

ApiError == Rejected(NewError("429 rate limit"))

----------------------------------------------------------------------------
(* TestManager: pure parts *)

Frameworks == {"jest", "mocha", "cypress", "playwright"}

\* getTestRunner
GetTestRunner(fw) ==
    IF fw \in {"jest", "mocha"} THEN "jest"
    ELSE IF fw \in {"playwright", "cypress"} THEN "playwright"
    ELSE "jest"

\* str.includes(sub)
Contains(str, sub) ==
    \E i \in 1..(Len(str) - Len(sub) + 1) : SubSeq(str, i, i + Len(sub) - 1) = sub

\* content.includes(s): a file's content is kept as the set of code fragments
\* in it, and s is looked for inside each fragment
Includes(content, s) ==
    "idioms" \in DOMAIN content /\ \E fragment \in content.idioms : Contains(fragment, s)

\* a detection that tries the Playwright rule first
DetectFrameworkPlaywrightFirst(read) ==
    IF read.threw THEN "jest"
    ELSE LET c == read.value
         IN  IF Includes(c, "test.describe") \/ Includes(c, "page.goto")
             THEN "playwright"
             ELSE IF Includes(c, "describe") /\ Includes(c, "test(") /\ Includes(c, "expect(")
             THEN "jest"
             ELSE IF Includes(c, "describe") /\ Includes(c, "it(") /\ Includes(c, "expect(")
             THEN "mocha"
             ELSE IF Includes(c, "cy.visit") \/ Includes(c, "cy.get")
             THEN "cypress"
             ELSE "jest"

\* detectFramework on the content read (or on the read error)
DetectFramework(read) ==
    IF read.threw THEN "jest"
    ELSE LET c == read.value
         IN  IF Includes(c, "describe") /\ Includes(c, "test(") /\ Includes(c, "expect(")
             THEN "jest"
             ELSE IF Includes(c, "describe") /\ Includes(c, "it(") /\ Includes(c, "expect(")
             THEN "mocha"
             ELSE IF Includes(c, "test.describe") \/ Includes(c, "page.goto")
             THEN "playwright"
             ELSE IF Includes(c, "cy.visit") \/ Includes(c, "cy.get")
             THEN "cypress"
             ELSE "jest"

SourcePath == "src/user.ts"
TestPath == "test/user.test.ts"
TestDir == "test"

\* contents of test files
TestFileContents ==
    { CodeReply({"describe", "test(", "expect("}),
      CodeReply({"describe", "it(", "expect("}),
      CodeReply({"page.goto"}),
      CodeReply({"cy.get"}),
      CodeReply({}),
      CodeReply({"test.describe(", "test(", "expect(", "page.goto("}),
      CodeReply({"describe(", "it(", "cy.visit("}),
      CodeReply({"describe(", "cy.visit(", "expect("}),
      CodeReply({"page.goto(", "cy.get("}) }

SourceContent == [kind |-> "text", text |-> "export function add(a, b) { return a + b; }"]

\* the message prefix of the call's catch block
CallPrefix(c) ==
    IF c = "generateAndRunTests" THEN "Failed to generate and run tests: "
    ELSE IF c = "runExistingTests" THEN "Failed to run existing tests: "
    ELSE IF c = "initializeAgent" THEN "Failed to initialize agent: "
    ELSE ""

----------------------------------------------------------------------------
(* State *)

NoValue == [none |-> TRUE]
Pending == [status |-> "pending"]
Fulfilled(v) == [status |-> "resolved", value |-> v]
Failed(m) == [status |-> "rejected", message |-> m]

\* how a promise that settled as r is seen by the caller
Settled(r) == IF r.threw THEN Failed(r.error.message) ELSE Fulfilled(r.value)

EmptyFiles == [q \in {} |-> NoValue]

\* the steps of a pipeline call, in program order
PipelineSteps == <<"scan", "generate", "render", "write", "run", "aggregate", "report">>

InitCommon ==
    /\ call = "none"
    /\ agents = <<>>
    /\ framework = "none"
    /\ runner = "none"
    /\ exec = NoValue
    /\ results = <<>>
    /\ analysis = NoValue
    /\ outcome = Pending
    /\ testCases = NoValue
    /\ testCode = NoValue
    /\ formats = <<>>
    /\ reportPaths = <<>>
    /\ clock = 0
    /\ steps = <<>>
    /\ faults = {}
    /\ lastOptions = NoValue
    /\ openaiAgent = NoValue
    /\ llmCalls = 0

\* the call in progress rejects with the catch block's wrapped message
Reject(error) ==
    /\ pc' = "rejected"
    /\ outcome' = Failed(CallPrefix(call) \o error.message)

----------------------------------------------------------------------------
(* Direct calls on a runner: runTests, then analyzeResults *)

InitRunner ==
    /\ InitCommon
    /\ pc = "idle"
    /\ config \in {c \in Configs : Truthy(c.apiKeys.openai) /\ c.agents = <<>>}
    /\ dirs = {}
    /\ files = EmptyFiles
    /\ runs = <<>>

\* runner.runTests(testPath): the child process settles as e
CallRunTests ==
    /\ pc = "idle"
    /\ \E r \in Runners : \E e \in ExecOutcomes(RunnerDocs(r)) :
        LET ret == RunTests(r, e)
        IN  /\ call' = "runTests"
            /\ runner' = r
            /\ exec' = e
            /\ outcome' = Settled(ret)
            /\ results' = IF ret.threw THEN <<>> ELSE ret.value
            /\ pc' = IF ret.threw THEN "rejected" ELSE "ran"
    /\ UNCHANGED <<clock, config, agents, framework, analysis, dirs, files, testCases,
                   testCode, formats, reportPaths, steps, faults>>
    /\ UNCHANGED <<lastOptions, runs, openaiAgent, llmCalls>>

\* runner.analyzeResults(results) on what runTests returned
CallAnalyzeResults ==
    /\ pc = "ran"
    /\ call = "runTests"
    /\ analysis' = AnalyzeResults(runner, results)
    /\ pc' = "analyzed"
    /\ UNCHANGED <<clock, call, config, agents, framework, runner, exec, results, outcome,
                   dirs, files, testCases, testCode, formats, reportPaths, steps, faults>>
    /\ UNCHANGED <<lastOptions, runs, openaiAgent, llmCalls>>

\* TestResults a caller can hand to analyzeResults
SampleResults ==
    { [testId |-> "s a", passed |-> TRUE, error |-> Undefined, duration |-> 10],
      [testId |-> "s b", passed |-> FALSE, error |-> "boom", duration |-> 5],
      [testId |-> "a & b", passed |-> FALSE, error |-> "<bad>", duration |-> 0],
      [testId |-> "q \"x\" 'y'", passed |-> FALSE, error |-> "&lt; & &amp;", duration |-> 1],
      [testId |-> "e", passed |-> FALSE, error |-> Undefined, duration |-> 0] }

\* runner.analyzeResults(rs) on any TestResult sequence
CallAnalyzeGiven ==
    /\ pc = "idle"
    /\ \E r \in Runners : \E rs \in SeqsUpTo(SampleResults, MaxResults) :
        /\ call' = "analyzeResults"
        /\ runner' = r
        /\ results' = rs
        /\ analysis' = AnalyzeResults(r, rs)
        /\ outcome' = Fulfilled(AnalyzeResults(r, rs))
        /\ pc' = "analyzed"
    /\ UNCHANGED <<clock, config, agents, framework, exec, dirs, files, testCases,
                   testCode, formats, reportPaths, steps, faults>>
    /\ UNCHANGED <<lastOptions, runs, openaiAgent, llmCalls>>

NextRunner ==
    \/ CallRunTests
    \/ CallAnalyzeResults
    \/ CallAnalyzeGiven

SpecRunner == InitRunner /\ [][NextRunner]_vars

----------------------------------------------------------------------------
(* Direct calls on a TestReporter *)

\* an output directory that holds files of an earlier session
ExistingReports ==
    [q \in {PathJoin(OutputPath, "report.out"), PathJoin(OutputPath, "notes.txt")} |->
        [kind |-> "text", text |-> "old"]]

InitReporter ==
    /\ InitCommon
    /\ pc = "idle"
    /\ config \in {c \in Configs : Truthy(c.apiKeys.openai) /\ c.agents = <<>>}
    /\ \/ dirs = {} /\ files = EmptyFiles
       \/ dirs = {OutputPath} /\ files \in {EmptyFiles, ExistingReports}
    /\ runs = <<>>

ReportOptions ==
    [format : FormatValues, outputPath : {OutputPath},
     filename : {Undefined, "report.out"}, includeTimestamp : BOOLEAN]

\* reporter.generateReport(results, analysis, options)
CallGenerateReport ==
    /\ pc = "idle"
    /\ \E rs \in SeqsUpTo(SampleResults, MaxResults) :
       \E opts \in ReportOptions : \E env \in ReportEnvs(clock) :
        LET an == JestAnalyzeResults(rs)
            ret == ReporterGenerateReport(dirs, files, clock, rs, an, opts, env)
        IN  /\ call' = "generateReport"
            /\ results' = rs
            /\ analysis' = an
            /\ formats' = <<opts.format>>
            /\ lastOptions' = opts
            /\ clock' = ret.clock
            /\ dirs' = ret.dirs
            /\ files' = ret.files
            /\ outcome' = Settled(ret.result)
            /\ reportPaths' = IF ret.result.threw THEN <<>> ELSE <<ret.result.value>>
            /\ pc' = IF ret.result.threw THEN "rejected" ELSE "reported"
    /\ UNCHANGED <<config, agents, framework, runner, exec, testCases, testCode,
                   steps, faults, runs, openaiAgent, llmCalls>>

NextReporter == CallGenerateReport

SpecReporter == InitReporter /\ [][NextReporter]_vars

----------------------------------------------------------------------------
(* The pipeline: initializeAgent, then one TestManager call *)

\* documents the child process prints in a pipeline run
PipelineDocs(r) ==
    IF r = "jest"
    THEN {[numTotalTests |-> 0], [testResults |-> <<>>], ExampleJestDoc}
    ELSE {[config |-> "c"], ExamplePlaywrightDoc}

\* what the LLM answers
CaseReplies == {ApiError, Resolved(EmptyReply), Resolved(TextReply), Resolved(CasesReply)}
CodeReplies == {ApiError, Resolved(CodeReply({"describe", "test(", "expect("}))}

\* the inner try/catch of a runner's success path
RunnerDecode(r, stdout) == IF r = "jest" THEN JestDecode(stdout) ELSE PlaywrightDecode(stdout)

\* the failure, if any, that the child process and the decoder injected
RunFaults(r, e) ==
    IF e.threw THEN {"process"}
    ELSE IF RunnerDecode(r, e.value.stdout).threw THEN {"decode"}
    ELSE {}

Init ==
    /\ InitCommon
    /\ pc = "new"
    /\ config \in Configs
    /\ dirs = {"src"}
    /\ files \in {[q \in {SourcePath} |-> SourceContent],
                  [q \in {SourcePath, TestPath} |->
                      IF q = SourcePath THEN SourceContent ELSE CodeReply({"page.goto"})]}
    /\ runs = <<>>

\* index.ts initializeAgent: loadConfig, new AgentManager, initialize
InitializeAgent ==
    /\ pc = "new"
    /\ call' = "initializeAgent"
    /\ \E loadOk \in BOOLEAN :
        IF ~loadOk
        THEN /\ pc' = "rejected"
             /\ outcome' = Failed(CallPrefix("initializeAgent")
                                  \o "Failed to load config: Unexpected token")
             /\ faults' = {"config"}
             /\ UNCHANGED agents
        ELSE LET r == AgentManagerInitialize(config)
             IN  /\ pc' = "idle"
                 /\ agents' = r.agents
                 /\ outcome' = Fulfilled("managers")
                 /\ faults' = IF Len(r.failed) > 0 THEN {"agentInit"} ELSE {}
    /\ UNCHANGED <<clock, config, framework, runner, exec, results, analysis, dirs, files,
                   testCases, testCode, formats, reportPaths, steps>>
    /\ UNCHANGED <<lastOptions, runs, openaiAgent, llmCalls>>

\* generateAndRunTests up to its first await: testConfig, getDefaultAgent
StartGenerateAndRunTests ==
    /\ pc = "idle"
    /\ call = "initializeAgent"
    /\ call' = "generateAndRunTests"
    /\ \E fw \in Frameworks : \E fmts \in SeqsUpTo(FormatValues, MaxFormats) :
        /\ framework' = fw
        /\ formats' = fmts
    /\ LET agent == GetDefaultAgent(agents)
       IN  IF agent.threw
           THEN /\ pc' = "rejected"
                /\ outcome' = Failed(CallPrefix("generateAndRunTests") \o agent.error.message)
                /\ faults' = {"noAgent"}
           ELSE /\ pc' = "scan"
                /\ outcome' = Pending
                /\ faults' = {}
    /\ UNCHANGED <<clock, config, agents, runner, exec, results, analysis, dirs, files,
                   testCases, testCode, reportPaths, steps>>
    /\ UNCHANGED <<lastOptions, runs, openaiAgent, llmCalls>>

\* await generator.analyzeCode(sourcePath)
Scan ==
    /\ pc = "scan"
    /\ steps' = Append(steps, "scan")
    /\ \E ioOk \in BOOLEAN :
        LET r == GeneratorAnalyzeCode(files, SourcePath, ioOk)
        IN  IF r.threw
            THEN Reject(r.error) /\ faults' = faults \cup {"scan"} /\ UNCHANGED analysis
            ELSE pc' = "generate" /\ analysis' = r.value /\ UNCHANGED <<outcome, faults>>
    /\ UNCHANGED <<clock, call, config, agents, framework, runner, exec, results, dirs, files,
                   testCases, testCode, formats, reportPaths>>
    /\ UNCHANGED <<lastOptions, runs, openaiAgent, llmCalls>>

\* a generate step that logs a failure and carries on with no test cases
GenerateCasesCarriesOn ==
    /\ pc = "generate"
    /\ steps' = Append(steps, "generate")
    /\ \E ioOk \in BOOLEAN : \E api \in CaseReplies :
        LET r == GeneratorGenerateTestCases(files, analysis, ioOk, api)
        IN  /\ pc' = "render"
            /\ llmCalls' = llmCalls + GenerateTestCasesRequests(files, analysis, ioOk)
            /\ testCases' = (IF r.threw THEN <<>> ELSE r.value)
            /\ faults' = (IF r.threw THEN faults \cup {"generate"} ELSE faults)
    /\ UNCHANGED <<clock, call, config, agents, framework, runner, exec, results, analysis,
                   outcome, dirs, files, testCode, formats, reportPaths>>
    /\ UNCHANGED <<lastOptions, runs, openaiAgent>>

\* await generator.generateTestCases(analysis, testConfig)
GenerateCases ==
    /\ pc = "generate"
    /\ steps' = Append(steps, "generate")
    /\ \E ioOk \in BOOLEAN : \E api \in CaseReplies :
        LET r == GeneratorGenerateTestCases(files, analysis, ioOk, api)
        IN  /\ llmCalls' = llmCalls + GenerateTestCasesRequests(files, analysis, ioOk)
            /\ IF r.threw
               THEN Reject(r.error) /\ faults' = faults \cup {"generate"} /\ UNCHANGED testCases
               ELSE pc' = "render" /\ testCases' = r.value /\ UNCHANGED <<outcome, faults>>
    /\ UNCHANGED <<clock, call, config, agents, framework, runner, exec, results, analysis,
                   dirs, files, testCode, formats, reportPaths>>
    /\ UNCHANGED <<lastOptions, runs, openaiAgent>>

\* await generator.convertToTestCode(testCases, testConfig.framework)
RenderCode ==
    /\ pc = "render"
    /\ steps' = Append(steps, "render")
    /\ \E api \in CodeReplies :
        LET r == GeneratorConvertToTestCode(testCases, framework, api)
        IN  IF r.threw
            THEN Reject(r.error) /\ faults' = faults \cup {"render"} /\ UNCHANGED testCode
            ELSE pc' = "write" /\ testCode' = r.value /\ UNCHANGED <<outcome, faults>>
    /\ llmCalls' = llmCalls + 1
    /\ UNCHANGED <<clock, call, config, agents, framework, runner, exec, results, analysis,
                   dirs, files, testCases, formats, reportPaths>>
    /\ UNCHANGED <<lastOptions, runs, openaiAgent>>

\* await fs.mkdir(testDir, {recursive}); await fs.writeFile(testPath, testCode)
WriteTestFile ==
    /\ pc = "write"
    /\ steps' = Append(steps, "write")
    /\ \E mkdirOk \in BOOLEAN : \E writeOk \in BOOLEAN :
        IF ~mkdirOk
        THEN /\ Reject(NewError("EACCES: permission denied, mkdir '" \o TestDir \o "'"))
             /\ faults' = faults \cup {"write"}
             /\ UNCHANGED <<dirs, files>>
        ELSE IF ~writeOk
        THEN /\ Reject(NewError("EACCES: permission denied, open '" \o TestPath \o "'"))
             /\ faults' = faults \cup {"write"}
             /\ dirs' = dirs \cup {TestDir}
             /\ UNCHANGED files
        ELSE /\ pc' = "run"
             /\ dirs' = dirs \cup {TestDir}
             /\ files' = WriteFile(files, TestPath, testCode)
             /\ UNCHANGED <<outcome, faults>>
    /\ UNCHANGED <<clock, call, config, agents, framework, runner, exec, results, analysis,
                   testCases, testCode, formats, reportPaths>>
    /\ UNCHANGED <<lastOptions, runs, openaiAgent, llmCalls>>

\* runExistingTests up to its first await
StartRunExistingTests ==
    /\ pc = "idle"
    /\ call = "initializeAgent"
    /\ call' = "runExistingTests"
    /\ \E fmts \in SeqsUpTo(FormatValues, MaxFormats) : formats' = fmts
    /\ pc' = "detect"
    /\ outcome' = Pending
    /\ faults' = {}
    /\ UNCHANGED <<clock, config, agents, framework, runner, exec, results, analysis, dirs,
                   files, testCases, testCode, reportPaths, steps>>
    /\ UNCHANGED <<lastOptions, runs, openaiAgent, llmCalls>>

\* await this.detectFramework(testPath): a failed read is logged and gives Jest
DetectFrameworkStep ==
    /\ pc = "detect"
    /\ steps' = Append(steps, "detect")
    /\ \E ioOk \in BOOLEAN :
        LET read == ReadFile(files, TestPath, ioOk)
        IN  /\ framework' = DetectFramework(read)
            /\ faults' = IF read.threw THEN faults \cup {"detect"} ELSE faults
    /\ pc' = "run"
    /\ UNCHANGED <<clock, call, config, agents, runner, exec, results, analysis, outcome, dirs,
                   files, testCases, testCode, formats, reportPaths>>
    /\ UNCHANGED <<lastOptions, runs, openaiAgent, llmCalls>>

\* getTestRunner(framework); await runner.runTests(testPath)
InvokeRunner ==
    /\ pc = "run"
    /\ steps' = Append(steps, "run")
    /\ runner' = GetTestRunner(framework)
    /\ \E e \in ExecOutcomes(PipelineDocs(GetTestRunner(framework))) :
        LET r == RunTests(GetTestRunner(framework), e)
        IN  /\ exec' = e
            /\ IF r.threw
               THEN /\ Reject(r.error)
                    /\ faults' = faults \cup RunFaults(GetTestRunner(framework), e)
                    /\ UNCHANGED results
               ELSE /\ pc' = "aggregate"
                    /\ results' = r.value
                    /\ faults' = faults \cup RunFaults(GetTestRunner(framework), e)
                    /\ UNCHANGED outcome
    /\ UNCHANGED <<clock, call, config, agents, framework, analysis, dirs, files, testCases,
                   testCode, formats, reportPaths>>
    /\ UNCHANGED <<lastOptions, runs, openaiAgent, llmCalls>>

\* an aggregation step that returns the analysis without writing any report
AggregateSkipsReports ==
    /\ pc = "aggregate"
    /\ steps' = Append(steps, "aggregate")
    /\ analysis' = AnalyzeResults(runner, results)
    /\ pc' = "resolved"
    /\ outcome' = Fulfilled(AnalyzeResults(runner, results))
    /\ UNCHANGED <<clock, call, config, agents, framework, runner, exec, results, dirs, files,
                   testCases, testCode, formats, reportPaths, faults>>
    /\ UNCHANGED <<lastOptions, runs, openaiAgent, llmCalls>>

\* await runner.analyzeResults(results); without report formats the call returns
Aggregate ==
    /\ pc = "aggregate"
    /\ steps' = Append(steps, "aggregate")
    /\ analysis' = AnalyzeResults(runner, results)
    /\ IF Len(formats) > 0
       THEN pc' = "report" /\ UNCHANGED outcome
       ELSE pc' = "resolved" /\ outcome' = Fulfilled(AnalyzeResults(runner, results))
    /\ UNCHANGED <<clock, call, config, agents, framework, runner, exec, results, dirs, files,
                   testCases, testCode, formats, reportPaths, faults>>
    /\ UNCHANGED <<lastOptions, runs, openaiAgent, llmCalls>>

\* a report loop that removes the reports it has written when a later one fails
ReportNextFormatRollsBack ==
    /\ pc = "report"
    /\ steps' = IF Len(reportPaths) = 0 THEN Append(steps, "report") ELSE steps
    /\ \E env \in ReportEnvs(clock) :
        LET opts == [format |-> formats[Len(reportPaths) + 1], outputPath |-> OutputPath,
                     filename |-> Undefined, includeTimestamp |-> TRUE]
            ret == ReporterGenerateReport(dirs, files, clock, results, analysis, opts, env)
        IN  /\ lastOptions' = opts
            /\ clock' = ret.clock
            /\ dirs' = ret.dirs
            /\ IF ret.result.threw
               THEN /\ Reject(ret.result.error)
                    /\ faults' = faults \cup {"report"}
                    /\ files' = [q \in DOMAIN files \cap {SourcePath, TestPath} |-> files[q]]
                    /\ UNCHANGED reportPaths
               ELSE /\ reportPaths' = Append(reportPaths, ret.result.value)
                    /\ files' = ret.files
                    /\ UNCHANGED faults
                    /\ IF Len(reportPaths) + 1 = Len(formats)
                       THEN pc' = "resolved" /\ outcome' = Fulfilled(analysis)
                       ELSE pc' = "report" /\ UNCHANGED outcome
    /\ UNCHANGED <<call, config, agents, framework, runner, exec, results, analysis,
                   testCases, testCode, formats, runs, openaiAgent, llmCalls>>

\* one turn of runner.generateReport's loop: await reporter.generateReport(...);
\* after the last format the call returns the analysis
ReportNextFormat ==
    /\ pc = "report"
    /\ steps' = IF Len(reportPaths) = 0 THEN Append(steps, "report") ELSE steps
    /\ \E env \in ReportEnvs(clock) :
        LET opts == [format |-> formats[Len(reportPaths) + 1], outputPath |-> OutputPath,
                     filename |-> Undefined, includeTimestamp |-> TRUE]
            ret == ReporterGenerateReport(dirs, files, clock, results, analysis, opts, env)
        IN  /\ lastOptions' = opts
            /\ clock' = ret.clock
            /\ dirs' = ret.dirs
            /\ files' = ret.files
            /\ IF ret.result.threw
               THEN /\ Reject(ret.result.error)
                    /\ faults' = faults \cup {"report"}
                    /\ UNCHANGED reportPaths
               ELSE /\ reportPaths' = Append(reportPaths, ret.result.value)
                    /\ UNCHANGED faults
                    /\ IF Len(reportPaths) + 1 = Len(formats)
                       THEN pc' = "resolved" /\ outcome' = Fulfilled(analysis)
                       ELSE pc' = "report" /\ UNCHANGED outcome
    /\ UNCHANGED <<call, config, agents, framework, runner, exec, results, analysis,
                   testCases, testCode, formats, runs, openaiAgent, llmCalls>>

Next ==
    \/ InitializeAgent
    \/ StartGenerateAndRunTests
    \/ Scan
    \/ GenerateCases
    \/ RenderCode
    \/ WriteTestFile
    \/ StartRunExistingTests
    \/ DetectFrameworkStep
    \/ InvokeRunner
    \/ Aggregate
    \/ ReportNextFormat

Spec == Init /\ [][Next]_vars

----------------------------------------------------------------------------
(* Claims about runTests and analyzeResults, checked under SpecRunner *)

HasPrefix(str, prefix) ==
    Len(str) >= Len(prefix) /\ SubSeq(str, 1, Len(prefix)) = prefix

ToolName(r) == IF r = "jest" THEN "Jest" ELSE "Playwright"

RanTests == call = "runTests" /\ pc # "idle"

IsExecutionError(rs) == Len(rs) = 1 /\ rs[1].testId = "test-execution-error"

\* C1: a successful exit whose stdout is not JSON makes runTests fail with
\* "Failed to parse <tool> results: ...", not return the synthetic result.
C1_DecodeFailureRejects ==
    (RanTests /\ ~exec.threw /\ exec.value.stdout = GarbageStdout)
        => /\ outcome.status = "rejected"
           /\ HasPrefix(outcome.message, "Failed to parse " \o ToolName(runner) \o " results: ")
           /\ ~IsExecutionError(results)

\* C2: when the tool cannot be started (exec rejects, no stdout), runTests
\* resolves with exactly one result: test-execution-error, failed, duration 0,
\* error = the non-empty failure message.
C2_SpawnFailureDegrades ==
    (RanTests /\ ProcessNotStarted(exec))
        => /\ outcome.status = "resolved"
           /\ outcome.value = results
           /\ Len(results) = 1
           /\ results[1].testId = "test-execution-error"
           /\ results[1].passed = FALSE
           /\ results[1].duration = 0
           /\ results[1].error = exec.error.message
           /\ results[1].error # ""

C2_Witness ==
    /\ RanTests /\ ProcessNotStarted(exec)
    /\ exec.error.message = "spawn npx ENOENT"
    /\ runner = "playwright"
    /\ IsExecutionError(results)

\* a result document of the runner's family
IsResultDocument(r, doc) ==
    IF r = "jest" THEN JestIterable(doc) ELSE "suites" \in DOMAIN doc

DecodeDocument(r, doc) ==
    IF r = "jest" THEN ParseJestResults(doc) ELSE ParsePlaywrightResults(doc)

\* C3: for either runner, a non-zero exit whose stdout is a valid result
\* document returns the results decoded from it, not the synthetic result.
C3_FailedExitDecodesStdout ==
    (/\ RanTests /\ exec.threw /\ exec.error.stdout.kind = "json"
     /\ IsResultDocument(runner, exec.error.stdout.doc))
        => /\ outcome.status = "resolved"
           /\ results = DecodeDocument(runner, exec.error.stdout.doc).value

\* C4: whenever the process fails, runTests returns at least one TestResult,
\* whatever the failed process wrote to stdout.
C4_FailureYieldsAResult ==
    (RanTests /\ ProcessFailed(exec))
        => outcome.status = "resolved" /\ Len(results) >= 1

\* the number of results with the passed flag, counted on the sequence itself
PassedCount(rs) == Cardinality({i \in 1..Len(rs) : rs[i].passed})

\* C8: for every TestResult sequence (the empty one included) and both
\* runners, summary.total = length and passed + failed = total.
C8_TotalsAddUp ==
    (pc = "analyzed")
        => /\ analysis.summary.total = Len(results)
           /\ analysis.summary.passed + analysis.summary.failed = analysis.summary.total
           /\ analysis.summary.passed = PassedCount(results)

C8_Witness ==
    /\ pc = "analyzed"
    /\ runner = "playwright"
    /\ Len(results) = 2
    /\ analysis.summary.passed = 1
    /\ analysis.summary.failed = 1

\* C9: passRate is (passed / total) * 100 when total > 0 and exactly 0 for the
\* empty sequence (no division by zero), so it lies in 0..100.
C9_PassRate ==
    (pc = "analyzed")
        => LET rate == analysis.summary.passRate
               total == Len(results)
           IN  /\ rate.den > 0
               /\ total > 0 => rate.num * total = PassedCount(results) * 100 * rate.den
               /\ total = 0 => rate.num = 0
               /\ 0 <= rate.num /\ rate.num <= 100 * rate.den

C9_Witness ==
    /\ pc = "analyzed"
    /\ results = <<>>
    /\ analysis.summary.passRate = Ratio(0, 1)

RECURSIVE ReportedDuration(_)
\* the durations a Jest document reports, summed suite by suite
ReportedDuration(ts) ==
    IF Len(ts) = 0 THEN 0
    ELSE LET as == ts[1].assertionResults
             suiteSum[i \in 0..Len(as)] ==
                 IF i = 0 THEN 0
                 ELSE suiteSum[i - 1] + (IF "duration" \in DOMAIN as[i] THEN as[i].duration ELSE 0)
         IN  suiteSum[Len(as)] + ReportedDuration(Tail(ts))

\* the Jest document runTests decoded, if it decoded one
DecodedJestDoc ==
    IF exec.threw THEN exec.error.stdout.doc ELSE exec.value.stdout.doc

JestDecodedRun ==
    /\ call = "runTests" /\ pc = "analyzed" /\ runner = "jest"
    /\ (IF exec.threw THEN exec.error.stdout.kind ELSE exec.value.stdout.kind) = "json"
    /\ JestIterable(DecodedJestDoc)

\* C10: decoding a Jest document and aggregating it: totalDuration is the sum
\* of the reported assertion durations over all suites; the example (passed 10,
\* failed "boom" 5) gives 2 results, total 2, passed 1, failed 1, passRate 50,
\* totalDuration 15.
C10_JestDecodeThenAggregate ==
    JestDecodedRun
        => /\ analysis.summary.totalDuration = ReportedDuration(DecodedJestDoc.testResults)
           /\ analysis.summary.total = CountAssertions(DecodedJestDoc.testResults)
           /\ DecodedJestDoc = ExampleJestDoc =>
                /\ Len(results) = 2
                /\ results[2].error = "boom"
                /\ analysis.summary.total = 2
                /\ analysis.summary.passed = 1
                /\ analysis.summary.failed = 1
                /\ analysis.summary.passRate.num = 50 * analysis.summary.passRate.den
                /\ analysis.summary.totalDuration = 15

C10_Witness ==
    /\ JestDecodedRun
    /\ DecodedJestDoc = ExampleJestDoc
    /\ ~exec.threw
    /\ analysis.summary.totalDuration = 15

\* a Jest document of two suites was decoded and aggregated
C10_WitnessTwoSuites ==
    /\ JestDecodedRun
    /\ Len(DecodedJestDoc.testResults) = 2
    /\ analysis.summary.totalDuration = 15

----------------------------------------------------------------------------
(* Claims about TestReporter.generateReport, checked under SpecReporter *)

\* C5: generateReport with a format other than json or xml fails with
\* "Unsupported report format: <format>" before any side effect: no directory
\* has been created and no file written when the error is raised.
C5_UnsupportedFormatNoSideEffect ==
    [][(/\ call' = "generateReport"
        /\ outcome'.status = "rejected"
        /\ HasPrefix(outcome'.message, "Unsupported report format: "))
           => (dirs' = dirs /\ files' = files)]_vars

----------------------------------------------------------------------------
(* Claims about the pipeline, checked under Spec *)

IsPrefix(s, t) == Len(s) <= Len(t) /\ SubSeq(t, 1, Len(s)) = s

Range(f) == {f[i] : i \in DOMAIN f}

\* C6: the only error that is caught and not re-thrown is the process failure
\* that runTests turns into the synthetic result; every other failure reaches
\* the caller as a rejected call with a wrapped message.
C6_OnlyProcessFailureIsSwallowed ==
    /\ outcome.status = "resolved" => faults \subseteq {"process"}
    /\ outcome.status = "rejected" => HasPrefix(outcome.message, CallPrefix(call))

\* the test file as it was before the call
TestFileUntouched ==
    /\ TestDir \notin dirs
    /\ TestPath \in DOMAIN files => files[TestPath] = CodeReply({"page.goto"})

NothingReported ==
    /\ reportPaths = <<>>
    /\ OutputPath \notin dirs
    /\ DOMAIN files \subseteq {SourcePath, TestPath}

C7_WitnessComplete ==
    /\ call = "generateAndRunTests"
    /\ pc = "resolved"
    /\ steps = PipelineSteps
    /\ Len(reportPaths) = 2

----------------------------------------------------------------------------
(* Claims about the failed-test list and the decoders, checked under SpecRunner *)

RECURSIVE FailingRefs(_)
\* the failing results of rs, in order, each reduced to testId and error
FailingRefs(rs) ==
    IF Len(rs) = 0 THEN <<>>
    ELSE (IF Head(rs).passed THEN <<>>
          ELSE <<[testId |-> Head(rs).testId, error |-> Head(rs).error]>>)
         \o FailingRefs(Tail(rs))

\* C11: failedTests holds exactly the failing results of the input, in input
\* order, one entry (testId + error) per failing result and none for a passing
\* one; its length equals summary.failed.
C11_FailedTestsExact ==
    (pc = "analyzed")
        => /\ analysis.failedTests = FailingRefs(results)
           /\ Len(analysis.failedTests) = analysis.summary.failed
           /\ \A i \in 1..Len(analysis.failedTests) :
                \E j \in 1..Len(results) :
                    /\ ~results[j].passed
                    /\ results[j].testId = analysis.failedTests[i].testId

\* a passing result followed by a failing one was aggregated
C11_Witness ==
    /\ pc = "analyzed"
    /\ runner = "playwright"
    /\ Len(results) = 2
    /\ results[1].passed /\ ~results[2].passed
    /\ analysis.failedTests = <<[testId |-> "s b", error |-> "boom"]>>

RECURSIVE FlatAssertions(_)
\* the assertion records of a Jest document, suite by suite
FlatAssertions(ts) ==
    IF Len(ts) = 0 THEN <<>> ELSE ts[1].assertionResults \o FlatAssertions(Tail(ts))

\* runTests of the Jest runner decoded a document (from stdout of either exit)
JestDocDecoded ==
    /\ call = "runTests" /\ runner = "jest" /\ pc \in {"ran", "analyzed"}
    /\ (IF exec.threw THEN exec.error.stdout.kind ELSE exec.value.stdout.kind) = "json"
    /\ JestIterable(DecodedJestDoc)

RECURSIVE PwLeaves(_)
\* the test records below the suites on `stack`, visited with an explicit stack:
\* each as <<title of its innermost suite, spec title, test record>>
PwLeaves(stack) ==
    IF Len(stack) = 0 THEN <<>>
    ELSE LET suite == Head(stack)
             specs == IF "specs" \in DOMAIN suite THEN suite.specs ELSE <<>>
             children == IF "suites" \in DOMAIN suite THEN suite.suites ELSE <<>>
             own == Concat([i \in 1..Len(specs) |->
                       [j \in 1..Len(specs[i].tests) |->
                           <<suite.title, specs[i].title, specs[i].tests[j]>>]])
         IN  own \o PwLeaves(children \o Tail(stack))

\* runTests of the Playwright runner decoded a report with suites
PlaywrightDocDecoded ==
    /\ call = "runTests" /\ runner = "playwright" /\ pc \in {"ran", "analyzed"}
    /\ ~exec.threw
    /\ exec.value.stdout.kind = "json"
    /\ "suites" \in DOMAIN exec.value.stdout.doc

\* C13: parsePlaywrightResults flattens a suite tree of any depth into exactly
\* one TestResult per test record of every spec of every suite (none lost, none
\* duplicated), with testId = innermost suite title + separator + spec title,
\* passed iff the status is "passed" or "expected", duration = the reported one or 0.
C13_PlaywrightFlattensTree ==
    PlaywrightDocDecoded
        => LET leaves == PwLeaves(exec.value.stdout.doc.suites)
           IN  /\ Len(results) = Len(leaves)
               /\ \A i \in 1..Len(leaves) :
                    /\ results[i].testId = leaves[i][1] \o " > " \o leaves[i][2]
                    /\ results[i].passed <=> (leaves[i][3].status \in {"passed", "expected"})
                    /\ results[i].duration =
                         (IF "duration" \in DOMAIN leaves[i][3] THEN leaves[i][3].duration ELSE 0)

\* a test in a nested suite, after a test of the root suite, was flattened
C13_Witness ==
    /\ PlaywrightDocDecoded
    /\ Len(results) = 2
    /\ results[1].testId = "A > t1" /\ ~results[1].passed /\ results[1].duration = 3
    /\ results[2].testId = "B > t1" /\ results[2].passed /\ results[2].duration = 0

----------------------------------------------------------------------------
(* Claims about the reports, checked under SpecReporter *)

XmlEntities == {"&amp;", "&lt;", "&gt;", "&quot;", "&apos;"}

\* the character an entity stands for
XmlEntityChar(ent) ==
    IF ent = "&amp;" THEN "&" ELSE IF ent = "&lt;" THEN "<" ELSE IF ent = "&gt;" THEN ">"
    ELSE IF ent = "&quot;" THEN "\"" ELSE "'"

\* the entities that start at position i of text
EntitiesAt(text, i) ==
    {ent \in XmlEntities :
        i + Len(ent) - 1 <= Len(text) /\ SubSeq(text, i, i + Len(ent) - 1) = ent}

\* text holds no literal < > " ' and every & in it starts one of the five entities
SafeXmlText(text) ==
    \A i \in 1..Len(text) :
        LET ch == SubSeq(text, i, i)
        IN  /\ ch \notin {"<", ">", "\"", "'"}
            /\ ch = "&" => EntitiesAt(text, i) # {}

RECURSIVE XmlUnescape(_)
\* what an XML reader makes of text: each entity read once, as its character
XmlUnescape(text) ==
    IF Len(text) = 0 THEN ""
    ELSE LET here == EntitiesAt(text, 1)
         IN  IF here # {}
             THEN LET ent == CHOOSE x \in here : TRUE
                  IN  XmlEntityChar(ent) \o XmlUnescape(SubSeq(text, Len(ent) + 1, Len(text)))
             ELSE Head(text) \o XmlUnescape(Tail(text))

\* an XML report was written by the call
XmlReportWritten ==
    /\ call = "generateReport" /\ pc = "reported"
    /\ formats = <<"xml">>
    /\ reportPaths[1] \in DOMAIN files

XmlTestcases == files[reportPaths[1]].testcases

\* C14: every testId and error text enters the XML report escaped: no literal
\* < > " ' remains, every & starts one of &amp; &lt; &gt; &quot; &apos;, and an
\* & of the input is escaped once (reading the entities back gives the input).
C14_XmlTextIsEscaped ==
    XmlReportWritten
        => /\ Len(XmlTestcases) = Len(results)
           /\ \A i \in 1..Len(results) :
                LET tc == XmlTestcases[i]
                IN  /\ SafeXmlText(tc.name)
                    /\ XmlUnescape(tc.name) = results[i].testId
                    /\ \A k \in 1..Len(tc.failure) :
                         /\ SafeXmlText(tc.failure[k].message)
                         /\ SafeXmlText(tc.failure[k].body)
                         /\ results[i].error # Undefined
                              => /\ XmlUnescape(tc.failure[k].message) = results[i].error
                                 /\ XmlUnescape(tc.failure[k].body) = results[i].error

\* a report with the identifier `a & b` and the error `<bad>`, and with an
\* identifier that holds both kinds of quotes and an error that holds entities
C14_Witness ==
    /\ XmlReportWritten
    /\ Len(results) = 2
    /\ results[1].testId = "a & b" /\ results[1].error = "<bad>"
    /\ XmlTestcases[1].name = "a &amp; b"
    /\ XmlTestcases[1].failure[1].body = "&lt;bad&gt;"
    /\ XmlTestcases[2].name = "q &quot;x&quot; &apos;y&apos;"
    /\ XmlTestcases[2].failure[1].body = "&amp;lt; &amp; &amp;amp;"

\* C15: the XML report holds one testcase per TestResult in input order; a
\* passing one has no failure child; a failing one nests exactly one failure
\* whose message attribute and body both carry the escaped error text, both
\* being the empty string when the result has no error text.
C15_XmlOneTestcasePerResult ==
    XmlReportWritten
        => /\ Len(XmlTestcases) = Len(results)
           /\ \A i \in 1..Len(results) :
                LET tc == XmlTestcases[i]
                    text == IF results[i].error = Undefined THEN "" ELSE results[i].error
                IN  /\ XmlUnescape(tc.name) = results[i].testId
                    /\ results[i].passed => Len(tc.failure) = 0
                    /\ ~results[i].passed
                         => /\ Len(tc.failure) = 1
                            /\ XmlUnescape(tc.failure[1].message) = text
                            /\ XmlUnescape(tc.failure[1].body) = text

\* JSON.parse of a report file's text: the document that was serialised, or a
\* SyntaxError when the text is not JSON
ReadJsonReport(content) ==
    IF content.kind = "json"
    THEN Resolved([k \in DOMAIN content \ {"kind"} |-> content[k]])
    ELSE Rejected(NewError("Unexpected token < in JSON at position 0"))

\* a JSON report was written by the call
JsonReportWritten ==
    /\ call = "generateReport" /\ pc = "reported"
    /\ formats = <<"json">>
    /\ reportPaths[1] \in DOMAIN files

\* C16: a JSON report written for a non-empty TestResult sequence and its
\* analyzeResults output reads back as a document whose summary.total is the
\* number of results and whose tests array has one entry per result in order:
\* status "passed"/"failed" as the passed flag, the same duration, error = the
\* error text or null.
C16_JsonReportRoundTrip ==
    (JsonReportWritten /\ Len(results) > 0)
        => LET read == ReadJsonReport(files[reportPaths[1]])
           IN  /\ ~read.threw
               /\ read.value.summary.total = Len(results)
               /\ Len(read.value.tests) = Len(results)
               /\ \A i \in 1..Len(results) :
                    LET t == read.value.tests[i]
                    IN  /\ t.id = results[i].testId
                        /\ t.status = (IF results[i].passed THEN "passed" ELSE "failed")
                        /\ t.duration = results[i].duration
                        /\ t.error = (IF results[i].error = Undefined
                                      THEN Null ELSE results[i].error)

\* a report of a passing result (error null) and a failing one was read back
C16_Witness ==
    /\ JsonReportWritten
    /\ Len(results) = 2
    /\ results[1].passed /\ ~results[2].passed
    /\ ReadJsonReport(files[reportPaths[1]]).value.tests[1].error = Null
    /\ ReadJsonReport(files[reportPaths[1]]).value.tests[2].error = "boom"
    /\ ReadJsonReport(files[reportPaths[1]]).value.summary.total = 2

\* h is the text iso with every colon replaced by a hyphen
ColonsHyphenated(iso, h) ==
    /\ Len(h) = Len(iso)
    /\ \A i \in 1..Len(iso) :
         SubSeq(h, i, i) = (IF SubSeq(iso, i, i) = ":" THEN "-" ELSE SubSeq(iso, i, i))

HasSuffix(str, suffix) ==
    Len(str) >= Len(suffix) /\ SubSeq(str, Len(str) - Len(suffix) + 1, Len(str)) = suffix

\* name is the file name the options o ask for, the clock having shown at most
\* the reading `upTo`
IsReportName(name, o, upTo) ==
    IF o.filename # Undefined THEN name = o.filename
    ELSE IF ~o.includeTimestamp THEN name = "test-report." \o o.format
    ELSE /\ HasPrefix(name, "test-report-")
         /\ HasSuffix(name, "." \o o.format)
         /\ \E t \in 1..upTo :
              ColonsHyphenated(ClockValues[t],
                  SubSeq(name, Len("test-report-") + 1, Len(name) - Len(o.format) - 1))

\* C17: on a supported format generateReport creates the output directory,
\* writes the rendered text as the complete content of outputPath/<name>
\* (replacing a file that is there, touching no other) and returns that path;
\* <name> is the supplied filename, else "test-report" + ("-" + the ISO timestamp
\* with colons as hyphens, when includeTimestamp) + "." + format.
C17_ReportFileWritten ==
    [][(pc = "idle" /\ call' = "generateReport" /\ lastOptions'.format \in ReportFormats
            /\ outcome'.status = "resolved")
        => LET o == lastOptions'
               path == outcome'.value
           IN  /\ dirs' = dirs \cup {o.outputPath}
               /\ HasPrefix(path, o.outputPath \o "/")
               /\ IsReportName(SubSeq(path, Len(o.outputPath) + 2, Len(path)), o, clock')
               /\ DOMAIN files' = DOMAIN files \cup {path}
               /\ \A q \in DOMAIN files \ {path} : files'[q] = files[q]
               /\ \E u \in 1..clock' :
                    files'[path] = (IF o.format = "json"
                                    THEN GenerateJsonReport(results', analysis', ClockValues[u])
                                    ELSE GenerateXmlReport(results', analysis', ClockValues[u]))]_vars

\* a report was written under the default name with a timestamp
C17_Witness ==
    /\ call = "generateReport" /\ pc = "reported"
    /\ lastOptions.filename = Undefined /\ lastOptions.includeTimestamp
    /\ outcome.value = "output/test-report-2024-01-01T10-00-00.001Z.json"
    /\ files[outcome.value].kind = "json"
    /\ Len(results) = 2

\* a report was written under a supplied name, next to a file of an earlier session
C17_WitnessSuppliedName ==
    /\ call = "generateReport" /\ pc = "reported"
    /\ lastOptions.filename = "report.out"
    /\ outcome.value = "output/report.out"
    /\ files[outcome.value].kind = "xml"
    /\ "output/notes.txt" \in DOMAIN files

----------------------------------------------------------------------------
(* Claims about the messages of failures, checked under Spec *)

\* sub occurs in str
\* C18: every failure that reaches the caller carries a message prefixed with
\* the operation that failed; a decode failure surfaces as "Failed to parse
\* <tool> results: ..." and a report rendering or writing failure surfaces as
\* "Failed to generate report: ...".
C18_FailuresNameTheOperation ==
    /\ pc = "rejected"
         => /\ CallPrefix(call) # ""
            /\ HasPrefix(outcome.message, CallPrefix(call))
    /\ "decode" \in faults
         => \/ pc = "rejected"
                 /\ Contains(outcome.message, "Failed to parse " \o ToolName(runner) \o " results: ")
            \/ \E i \in 1..Len(results) :
                 HasPrefix(results[i].error, "Failed to parse " \o ToolName(runner) \o " results: ")
    /\ "report" \in faults
         => /\ pc = "rejected"
            /\ Contains(outcome.message, "Failed to generate report: ")

----------------------------------------------------------------------------
(* Two TestManager calls in flight on one TestManager and one file system.  *)
(* A call gives way to the other at each await; fs.writeFile is an open     *)
(* that truncates the file followed by a write at the start of the file,    *)
(* and another call's file operations can fall between the two.             *)

RunIds == {1, 2}

RECURSIVE LastIndexOf(_, _)
\* String.prototype.lastIndexOf(ch), counted from 1; 0 when ch does not occur
LastIndexOf(str, ch) ==
    IF Len(str) = 0 THEN 0
    ELSE IF SubSeq(str, Len(str), Len(str)) = ch THEN Len(str)
    ELSE LastIndexOf(SubSeq(str, 1, Len(str) - 1), ch)

RECURSIVE IndexFrom(_, _, _)
\* the first position >= i at which sub occurs in str; 0 when there is none
IndexFrom(str, sub, i) ==
    IF i + Len(sub) - 1 > Len(str) THEN 0
    ELSE IF SubSeq(str, i, i + Len(sub) - 1) = sub THEN i
    ELSE IndexFrom(str, sub, i + 1)

\* str.replace(sub, rep): the first occurrence only
ReplaceFirst(str, sub, rep) ==
    LET i == IndexFrom(str, sub, 1)
    IN  IF i = 0 THEN str
        ELSE SubSeq(str, 1, i - 1) \o rep \o SubSeq(str, i + Len(sub), Len(str))

\* path.dirname, path.basename and path.extname on relative paths
Dirname(p) ==
    LET i == LastIndexOf(p, "/") IN IF i = 0 THEN "." ELSE SubSeq(p, 1, i - 1)

Basename(p) == SubSeq(p, LastIndexOf(p, "/") + 1, Len(p))

Extname(p) ==
    LET base == Basename(p)
        i == LastIndexOf(base, ".")
    IN  IF i <= 1 THEN "" ELSE SubSeq(base, i, Len(base))

\* getDefaultTestPath(sourcePath, framework): the framework is not used
GetDefaultTestPath(sourcePath) ==
    LET dir == Dirname(sourcePath)
        ext == Extname(sourcePath)
        filename == SubSeq(Basename(sourcePath), 1, Len(Basename(sourcePath)) - Len(ext))
        testDir == IF IndexFrom(dir, "src", 1) # 0
                   THEN ReplaceFirst(dir, "src", "test")
                   ELSE PathJoin(dir, "__tests__")
        extension == ReplaceFirst(ext, ".", ".test.")
    IN  PathJoin(testDir, filename \o extension)

\* the source files a caller asks tests for
SourcePaths == {SourcePath, "src/order.ts"}

\* the test code the LLM renders for a call
RenderedCodes ==
    {Resolved(CodeReply({"describe", "test(", "expect("})),
     Resolved(CodeReply({"describe", "test(", "expect(", "beforeEach("}))}

\* how the child process of a call settles
ConcurrentExecOutcomes ==
    {Resolved([stdout |-> JsonStdout(ExampleJestDoc)]),
     Rejected([message |-> "Command failed: exit code 1",
               stdout |-> JsonStdout([testResults |-> <<[assertionResults |->
                   <<[fullName |-> "s b", title |-> "b", status |-> "failed",
                      failureMessages |-> <<"boom">>, duration |-> 5]>>]>>])])}

RECURSIVE SumLen(_)
\* the total length of the strings of a finite set
SumLen(S) ==
    IF S = {} THEN 0
    ELSE LET x == CHOOSE y \in S : TRUE IN Len(x) + SumLen(S \ {x})

RECURSIVE TextSize(_)
\* the length of a file's text, counted in the characters of the strings that
\* vary from one document to another (markup and punctuation count per entry)
TextSize(content) ==
    IF content.kind = "empty" THEN 0
    ELSE IF content.kind = "torn" THEN TextSize(content.rest)
    ELSE IF content.kind = "json" /\ "tests" \in DOMAIN content
    THEN LET size[i \in 0..Len(content.tests)] ==
                 IF i = 0 THEN 0
                 ELSE size[i - 1] + 1 + Len(content.tests[i].id) + Len(content.tests[i].error)
         IN  1 + size[Len(content.tests)]
    ELSE IF "idioms" \in DOMAIN content THEN SumLen(content.idioms)
    ELSE Len(content.text)

\* a file that was just truncated
TruncatedFile == [kind |-> "empty"]

\* open(path, 'w'): the file is created or truncated
FsOpenTruncate(f, p) == WriteFile(f, p, TruncatedFile)

\* write(fd, data) on a descriptor at position 0: the data replaces the start
\* of the file, and what another descriptor wrote beyond its length stays
FsWriteAtStart(f, p, data) ==
    WriteFile(f, p, IF TextSize(f[p]) <= TextSize(data) THEN data
                    ELSE [kind |-> "torn", head |-> data, rest |-> f[p]])

\* a test file written before either call
ExistingTestCode == CodeReply({"describe", "it(", "expect("})

NewRun ==
    [pc |-> "start", call |-> "none", sourcePath |-> Undefined, testPath |-> Undefined,
     testCode |-> NoValue, framework |-> "none", executed |-> NoValue,
     results |-> <<>>, analysis |-> NoValue, reportPath |-> Undefined,
     content |-> NoValue, finished |-> 0, outcome |-> Pending]

InitConcurrent ==
    /\ InitCommon
    /\ pc = "concurrent"
    /\ config \in {c \in Configs : Truthy(c.apiKeys.openai) /\ c.agents = <<>>}
    /\ dirs = {"src"}
    /\ files \in {[q \in SourcePaths |-> SourceContent],
                  [q \in SourcePaths \cup {TestPath} |->
                      IF q = TestPath THEN ExistingTestCode ELSE SourceContent]}
    /\ runs = [r \in RunIds |-> NewRun]

\* the state of the single-call specifications, not used by the concurrent calls
singleCallVars ==
    <<pc, call, config, agents, framework, runner, exec, results, analysis, outcome,
      testCases, testCode, formats, reportPaths, steps, faults, lastOptions,
      openaiAgent, llmCalls>>

\* the number of report writes that have completed
FinishedWrites == Cardinality({r \in RunIds : runs[r].finished > 0})

RunRejects(r, error) ==
    runs' = [runs EXCEPT ![r].pc = "rejected",
                         ![r].outcome = Failed(CallPrefix(runs[r].call) \o error.message)]

\* generateAndRunTests(sourcePath) / runExistingTests(testPath) up to the first await
CStart(r) ==
    /\ runs[r].pc = "start"
    /\ \E sp \in SourcePaths :
        \/ runs' = [runs EXCEPT ![r].pc = "generate",
                                ![r].call = "generateAndRunTests",
                                ![r].sourcePath = sp,
                                ![r].testPath = GetDefaultTestPath(sp),
                                ![r].framework = "jest"]
        \/ runs' = [runs EXCEPT ![r].pc = "detect",
                                ![r].call = "runExistingTests",
                                ![r].testPath = GetDefaultTestPath(sp)]
    /\ UNCHANGED <<dirs, files, clock>>
    /\ UNCHANGED singleCallVars

\* analyzeCode, generateTestCases, convertToTestCode: they read the source file
\* and ask the LLM
CGenerate(r) ==
    /\ runs[r].pc = "generate"
    /\ \E api \in RenderedCodes \cup {ApiError} :
        LET parsed == GeneratorAnalyzeCode(files, runs[r].sourcePath, TRUE)
            cases == IF parsed.threw THEN parsed
                     ELSE GeneratorGenerateTestCases(files, parsed.value, TRUE,
                                                     Resolved(CasesReply))
            code == IF cases.threw THEN cases
                    ELSE GeneratorConvertToTestCode(cases.value, runs[r].framework, api)
        IN  IF code.threw THEN RunRejects(r, code.error)
            ELSE runs' = [runs EXCEPT ![r].pc = "mkdir", ![r].testCode = code.value]
    /\ UNCHANGED <<dirs, files, clock>>
    /\ UNCHANGED singleCallVars

\* await fs.mkdir(testDir, {recursive: true})
CMkdirTestDir(r) ==
    /\ runs[r].pc = "mkdir"
    /\ dirs' = dirs \cup {Dirname(runs[r].testPath)}
    /\ runs' = [runs EXCEPT ![r].pc = "open"]
    /\ UNCHANGED <<files, clock>>
    /\ UNCHANGED singleCallVars

\* await fs.writeFile(testPath, testCode): the open
COpenTestFile(r) ==
    /\ runs[r].pc = "open"
    /\ files' = FsOpenTruncate(files, runs[r].testPath)
    /\ runs' = [runs EXCEPT ![r].pc = "write"]
    /\ UNCHANGED <<dirs, clock>>
    /\ UNCHANGED singleCallVars

\* await fs.writeFile(testPath, testCode): the write
CWriteTestFile(r) ==
    /\ runs[r].pc = "write"
    /\ files' = FsWriteAtStart(files, runs[r].testPath, runs[r].testCode)
    /\ runs' = [runs EXCEPT ![r].pc = "run"]
    /\ UNCHANGED <<dirs, clock>>
    /\ UNCHANGED singleCallVars

\* await this.detectFramework(testPath)
CDetectFramework(r) ==
    /\ runs[r].pc = "detect"
    /\ runs' = [runs EXCEPT ![r].pc = "run",
                            ![r].framework =
                                DetectFramework(ReadFile(files, runs[r].testPath, TRUE))]
    /\ UNCHANGED <<dirs, files, clock>>
    /\ UNCHANGED singleCallVars

\* getTestRunner(framework); await runner.runTests(testPath): the child process
\* loads the file that is at testPath when it runs
CInvokeRunner(r) ==
    /\ runs[r].pc = "run"
    /\ \E e \in ConcurrentExecOutcomes :
        LET ret == RunTests(GetTestRunner(runs[r].framework), e)
        IN  IF ret.threw THEN RunRejects(r, ret.error)
            ELSE runs' = [runs EXCEPT
                    ![r].pc = "aggregate",
                    ![r].executed = ReadFile(files, runs[r].testPath, TRUE),
                    ![r].results = ret.value]
    /\ UNCHANGED <<dirs, files, clock>>
    /\ UNCHANGED singleCallVars

\* await runner.analyzeResults(results)
CAggregate(r) ==
    /\ runs[r].pc = "aggregate"
    /\ runs' = [runs EXCEPT
            ![r].pc = "report",
            ![r].analysis = AnalyzeResults(GetTestRunner(runs[r].framework), runs[r].results)]
    /\ UNCHANGED <<dirs, files, clock>>
    /\ UNCHANGED singleCallVars

\* reporter.generateReport up to fs.writeFile: mkdir, the file name from the
\* clock, the rendered document
CRenderReport(r) ==
    /\ runs[r].pc = "report"
    /\ dirs' = dirs \cup {OutputPath}
    /\ \E t \in ClockReadings(clock) : \E u \in ClockReadings(t) :
        /\ clock' = u
        /\ runs' = [runs EXCEPT
                ![r].pc = "reportOpen",
                ![r].reportPath =
                    PathJoin(OutputPath, ReportFilename("json", Undefined, TRUE, ClockValues[t])),
                ![r].content =
                    GenerateJsonReport(runs[r].results, runs[r].analysis, ClockValues[u])]
    /\ UNCHANGED files
    /\ UNCHANGED singleCallVars

\* await fs.writeFile(filePath, content): the open
COpenReport(r) ==
    /\ runs[r].pc = "reportOpen"
    /\ files' = FsOpenTruncate(files, runs[r].reportPath)
    /\ runs' = [runs EXCEPT ![r].pc = "reportWrite"]
    /\ UNCHANGED <<dirs, clock>>
    /\ UNCHANGED singleCallVars

\* await fs.writeFile(filePath, content): the write; then the call returns the analysis
CWriteReport(r) ==
    /\ runs[r].pc = "reportWrite"
    /\ files' = FsWriteAtStart(files, runs[r].reportPath, runs[r].content)
    /\ runs' = [runs EXCEPT ![r].pc = "resolved",
                            ![r].finished = FinishedWrites + 1,
                            ![r].outcome = Fulfilled(runs[r].analysis)]
    /\ UNCHANGED <<dirs, clock>>
    /\ UNCHANGED singleCallVars

NextConcurrent ==
    \/ \E r \in RunIds : CStart(r)
    \/ \E r \in RunIds : CGenerate(r)
    \/ \E r \in RunIds : CMkdirTestDir(r)
    \/ \E r \in RunIds : COpenTestFile(r)
    \/ \E r \in RunIds : CWriteTestFile(r)
    \/ \E r \in RunIds : CDetectFramework(r)
    \/ \E r \in RunIds : CInvokeRunner(r)
    \/ \E r \in RunIds : CAggregate(r)
    \/ \E r \in RunIds : CRenderReport(r)
    \/ \E r \in RunIds : COpenReport(r)
    \/ \E r \in RunIds : CWriteReport(r)

SpecConcurrent == InitConcurrent /\ [][NextConcurrent]_vars

----------------------------------------------------------------------------
(* Claims about concurrent calls, checked under SpecConcurrent *)

\* the test file at p is as it was before either call (or is still absent)
AsBeforeTheCalls(read) == read.threw \/ read.value = ExistingTestCode

\* C19: two concurrent generateAndRunTests / runExistingTests calls share only
\* the report output directory: the test file a call generated is not
\* overwritten by the other call before it is run, a call executes the test
\* file it wrote, and a call that runs existing tests reads and executes
\* nothing the other call wrote.
C19_RunsShareOnlyOutputDir ==
    \A r \in RunIds :
        /\ (runs[r].call = "generateAndRunTests" /\ runs[r].pc = "run")
             => ReadFile(files, runs[r].testPath, TRUE) = Resolved(runs[r].testCode)
        /\ (runs[r].call = "generateAndRunTests" /\ runs[r].executed # NoValue)
             => runs[r].executed = Resolved(runs[r].testCode)
        /\ (runs[r].call = "runExistingTests" /\ runs[r].executed # NoValue)
             => AsBeforeTheCalls(runs[r].executed)

\* C20: when two runs write a report to the same path concurrently, the file
\* finally holds the complete report of the run whose write finished last, and
\* the analysis each run returns depends on its own TestResults only.
C20_LastWriterWins ==
    /\ \A r \in RunIds : \A q \in RunIds \ {r} :
         (/\ runs[r].pc = "resolved" /\ runs[q].pc = "resolved"
          /\ runs[r].reportPath = runs[q].reportPath
          /\ runs[r].finished > runs[q].finished)
             => files[runs[r].reportPath] = runs[r].content
    /\ \A r \in RunIds :
         runs[r].pc = "resolved"
             => /\ runs[r].outcome = Fulfilled(runs[r].analysis)
                /\ runs[r].analysis =
                     AnalyzeResults(GetTestRunner(runs[r].framework), runs[r].results)
                /\ runs[r].content.summary = runs[r].analysis.summary

----------------------------------------------------------------------------
(* Direct calls on an OpenAIAgent, on an AITestGenerator built on it, and on
   the AgentManager's registry *)

MaxLlmCalls == 2

AgentIds == {"openai-default", "custom"}

\* the config objects a caller passes to init (properties may be absent)
InitConfigs ==
    { [apiKey |-> "sk-1"],
      [apiKey |-> "sk-1", model |-> "gpt-3.5-turbo"],
      [model |-> "gpt-3.5-turbo"],
      [apiKey |-> "", model |-> "gpt-3.5-turbo"],
      [apiKey |-> Undefined, model |-> Undefined] }

TaskNames ==
    {"generate-test", "analyze-code", "suggest-improvements", "unknown-task",
     "generate-tests", ""}

\* a reply that is a JSON object
ObjectReply == [kind |-> "json", doc |-> [complexity |-> 3, testability |-> 7]]

\* what the API answers to a chat completion request
TaskReplies == {ApiError, Resolved(EmptyReply), Resolved(TextReply), Resolved(ObjectReply)}

\* this.client.chat.completions.create(...): without a client the property
\* access throws before any request is sent
ClientCreate(agent, api) ==
    IF agent.client THEN api
    ELSE Rejected(NewError("Cannot read properties of undefined (reading 'chat')"))

\* OpenAIAgent.generateCompletion on `agent`: how it settles and the requests sent
AgentGenerateCompletion(agent, api) ==
    [result |-> GenerateCompletion(ClientCreate(agent, api)),
     requests |-> IF agent.client THEN 1 ELSE 0]

\* OpenAIAgent.generateTest: one completion, returned as { testCode }
OpenAIAgentGenerateTest(agent, api) ==
    LET c == AgentGenerateCompletion(agent, api)
    IN  [c EXCEPT !.result = IF @.threw THEN @ ELSE Resolved([testCode |-> @.value])]

\* JSON.parse(text) of a task reply, else { error, rawResponse }
ParseOrRaw(text, message) ==
    IF JSONParse(text).threw
    THEN Resolved([error |-> message, rawResponse |-> text])
    ELSE JSONParse(text)

\* OpenAIAgent.analyzeCode
OpenAIAgentAnalyzeCode(agent, api) ==
    LET c == AgentGenerateCompletion(agent, api)
    IN  [c EXCEPT !.result = IF @.threw THEN @
                             ELSE ParseOrRaw(@.value, "Failed to parse analysis")]

\* OpenAIAgent.suggestImprovements
OpenAIAgentSuggestImprovements(agent, api) ==
    LET c == AgentGenerateCompletion(agent, api)
    IN  [c EXCEPT !.result = IF @.threw THEN @
                             ELSE ParseOrRaw(@.value, "Failed to parse suggestions")]

\* a dispatch that treats every unlisted task as generate-test
ExecuteTaskDefaultsToGenerateTest(agent, task, api) ==
    IF task = "analyze-code" THEN OpenAIAgentAnalyzeCode(agent, api)
    ELSE IF task = "suggest-improvements" THEN OpenAIAgentSuggestImprovements(agent, api)
    ELSE OpenAIAgentGenerateTest(agent, api)

\* OpenAIAgent.executeTask: the switch on the task name
ExecuteTask(agent, task, api) ==
    IF task = "generate-test" THEN OpenAIAgentGenerateTest(agent, api)
    ELSE IF task = "analyze-code" THEN OpenAIAgentAnalyzeCode(agent, api)
    ELSE IF task = "suggest-improvements" THEN OpenAIAgentSuggestImprovements(agent, api)
    ELSE [result |-> Rejected(NewError("Unknown task: " \o task)), requests |-> 0]

\* Map.delete's return value: whether the key was there
HasAgent(as, agentId) == \E i \in 1..Len(as) : as[i].id = agentId

InitAgent ==
    /\ InitCommon
    /\ pc = "idle"
    /\ config \in {c \in Configs : Truthy(c.apiKeys.openai) /\ c.agents = <<>>}
    /\ dirs = {"src"}
    /\ files = [q \in {SourcePath} |-> SourceContent]
    /\ runs = <<>>

\* new OpenAIAgent(id)
NewOpenAIAgent ==
    /\ pc = "idle"
    /\ \E id \in AgentIds :
        /\ openaiAgent' = OpenAIAgentNew(id)
        /\ lastOptions' = [id |-> id]
    /\ call' = "new"
    /\ outcome' = Pending
    /\ UNCHANGED <<pc, config, agents, framework, runner, exec, results, analysis, dirs,
                   files, testCases, testCode, formats, reportPaths, clock, steps, faults,
                   runs, llmCalls>>

\* await openaiAgent.init(initConfig)
CallInit ==
    /\ pc = "idle"
    /\ openaiAgent # NoValue
    /\ \E initConfig \in InitConfigs :
        LET r == OpenAIAgentInit(openaiAgent, initConfig)
        IN  /\ lastOptions' = initConfig
            /\ openaiAgent' = IF r.threw THEN openaiAgent ELSE r.value
            /\ outcome' = IF r.threw THEN Failed(r.error.message) ELSE Fulfilled(Undefined)
    /\ call' = "init"
    /\ UNCHANGED <<pc, config, agents, framework, runner, exec, results, analysis, dirs,
                   files, testCases, testCode, formats, reportPaths, clock, steps, faults,
                   runs, llmCalls>>

\* await openaiAgent.executeTask(task, inputs)
CallExecuteTask ==
    /\ pc = "idle"
    /\ openaiAgent # NoValue
    /\ llmCalls < MaxLlmCalls
    /\ \E task \in TaskNames : \E api \in TaskReplies :
        LET r == ExecuteTask(openaiAgent, task, api)
        IN  /\ lastOptions' = [task |-> task, api |-> api]
            /\ outcome' = Settled(r.result)
            /\ llmCalls' = llmCalls + r.requests
    /\ call' = "executeTask"
    /\ UNCHANGED <<pc, config, agents, framework, runner, exec, results, analysis, dirs,
                   files, testCases, testCode, formats, reportPaths, clock, steps, faults,
                   runs, openaiAgent>>

\* await new AITestGenerator(openaiAgent).generateTestCases(parsed, testConfig)
CallGenerateTestCases ==
    /\ pc = "idle"
    /\ openaiAgent # NoValue
    /\ llmCalls < MaxLlmCalls
    /\ \E ioOk \in BOOLEAN : \E api \in CaseReplies :
        LET parsed == [filePath |-> SourcePath]
            sent == GenerateTestCasesRequests(files, parsed, ioOk)
            r == GeneratorGenerateTestCases(files, parsed, ioOk, ClientCreate(openaiAgent, api))
        IN  /\ lastOptions' = [readable |-> sent = 1, api |-> api]
            /\ outcome' = Settled(r)
            /\ testCases' = IF r.threw THEN NoValue ELSE r.value
            /\ llmCalls' = llmCalls + sent * AgentGenerateCompletion(openaiAgent, api).requests
    /\ call' = "generateTestCases"
    /\ UNCHANGED <<pc, config, agents, framework, runner, exec, results, analysis, dirs,
                   files, testCode, formats, reportPaths, clock, steps, faults,
                   runs, openaiAgent>>

\* agentManager.registerAgent(openaiAgent)
CallRegisterAgent ==
    /\ pc = "idle"
    /\ openaiAgent # NoValue
    /\ agents' = RegisterAgent(agents, openaiAgent)
    /\ lastOptions' = [agent |-> openaiAgent]
    /\ call' = "registerAgent"
    /\ outcome' = Fulfilled(Undefined)
    /\ UNCHANGED <<pc, config, framework, runner, exec, results, analysis, dirs,
                   files, testCases, testCode, formats, reportPaths, clock, steps, faults,
                   runs, openaiAgent, llmCalls>>

\* agentManager.unregisterAgent(agentId)
CallUnregisterAgent ==
    /\ pc = "idle"
    /\ \E agentId \in AgentIds :
        /\ agents' = UnregisterAgent(agents, agentId)
        /\ lastOptions' = [agentId |-> agentId]
        /\ outcome' = Fulfilled(HasAgent(agents, agentId))
    /\ call' = "unregisterAgent"
    /\ UNCHANGED <<pc, config, framework, runner, exec, results, analysis, dirs,
                   files, testCases, testCode, formats, reportPaths, clock, steps, faults,
                   runs, openaiAgent, llmCalls>>

\* agentManager.getDefaultAgent()
CallGetDefaultAgent ==
    /\ pc = "idle"
    /\ outcome' = Settled(GetDefaultAgent(agents))
    /\ lastOptions' = NoValue
    /\ call' = "getDefaultAgent"
    /\ UNCHANGED <<pc, config, agents, framework, runner, exec, results, analysis, dirs,
                   files, testCases, testCode, formats, reportPaths, clock, steps, faults,
                   runs, openaiAgent, llmCalls>>

NextAgent ==
    \/ NewOpenAIAgent
    \/ CallInit
    \/ CallExecuteTask
    \/ CallGenerateTestCases
    \/ CallRegisterAgent
    \/ CallUnregisterAgent
    \/ CallGetDefaultAgent

SpecAgent == InitAgent /\ [][NextAgent]_vars

----------------------------------------------------------------------------
(* runExistingTests on test files of every kind *)

InitExisting ==
    /\ InitCommon
    /\ pc = "new"
    /\ config \in {c \in Configs : Truthy(c.apiKeys.openai) /\ c.agents = <<>>}
    /\ dirs = {"src", TestDir}
    /\ files \in {[q \in {SourcePath} |-> SourceContent]}
                 \cup {[q \in {SourcePath, TestPath} |->
                           IF q = SourcePath THEN SourceContent ELSE c] :
                       c \in TestFileContents}
    /\ runs = <<>>

NextExisting ==
    \/ InitializeAgent
    \/ StartRunExistingTests
    \/ DetectFrameworkStep
    \/ InvokeRunner
    \/ Aggregate
    \/ ReportNextFormat

SpecExisting == InitExisting /\ [][NextExisting]_vars

\* ---------------------------------------------------------------------------
\* Claims C21..C30
\* ---------------------------------------------------------------------------

\* C21: every TestResult that runTests produces (from the Jest decoder, from
\* the Playwright decoder or on the synthetic error path) has a duration >= 0,
\* whatever document the tool printed, and so summary.totalDuration >= 0.
C21_DurationsNonNegative ==
    (call = "runTests" /\ pc \in {"ran", "analyzed"})
        => /\ \A i \in 1..Len(results) : results[i].duration >= 0
           /\ pc = "analyzed" => analysis.summary.totalDuration >= 0

\* the report files on disk: everything under the output directory
ReportFilesOnDisk == {q \in DOMAIN files : HasPrefix(q, OutputPath \o "/")}

\* position of the first occurrence of x in s precedes that of y
StepBefore(x, y) ==
    \E i, j \in 1..Len(steps) : i < j /\ steps[i] = x /\ steps[j] = y

NoRepetition(s) == \A i, j \in 1..Len(s) : s[i] = s[j] => i = j

\* C22: a TestManager call writes reports only after the run and the
\* aggregation; the i-th report written is the one of the i-th requested format
\* and nothing else lies in the output directory, so a call that resolves has
\* written one report per requested format in the order given (as many files
\* as formats when no format is asked for twice), none when the list is empty
\* or absent, and it returns the analysis (summary and failedTests).
C22_ReportsAfterAggregation ==
    (call \in {"generateAndRunTests", "runExistingTests"})
        => /\ (ReportFilesOnDisk # {} \/ "report" \in Range(steps))
                => /\ StepBefore("run", "aggregate")
                   /\ steps[Len(steps)] = "report"
                   /\ steps[Len(steps) - 1] = "aggregate"
                   /\ analysis = AnalyzeResults(runner, results)
           /\ Len(reportPaths) <= Len(formats)
           /\ \A i \in 1..Len(reportPaths) :
                /\ reportPaths[i] \in ReportFilesOnDisk
                /\ HasSuffix(reportPaths[i], "." \o formats[i])
           /\ ReportFilesOnDisk = Range(reportPaths)
           /\ formats = <<>> => ReportFilesOnDisk = {} /\ "report" \notin Range(steps)
           /\ pc = "resolved"
                => /\ Len(reportPaths) = Len(formats)
                   /\ NoRepetition(formats) => Cardinality(ReportFilesOnDisk) = Len(formats)
                   /\ outcome = Fulfilled(AnalyzeResults(runner, results))
                   /\ DOMAIN outcome.value = {"summary", "failedTests"}

\* a call that resolved after writing the JSON and then the XML report
C22_Witness ==
    /\ call = "runExistingTests"
    /\ pc = "resolved"
    /\ formats = <<"json", "xml">>
    /\ Len(reportPaths) = 2
    /\ HasSuffix(reportPaths[1], ".json") /\ HasSuffix(reportPaths[2], ".xml")
    /\ Cardinality(ReportFilesOnDisk) = 2
    /\ outcome.value.summary.total = Len(results)

\* a call without report formats resolved with the analysis and wrote nothing
C22_WitnessNoFormats ==
    /\ call = "generateAndRunTests"
    /\ pc = "resolved"
    /\ formats = <<>>
    /\ ReportFilesOnDisk = {}
    /\ outcome.value.summary.total = Len(results)

\* C23: OpenAIAgent.init rejects with "OpenAI API key is required" whenever
\* config.apiKey is missing or empty and then leaves the agent as it was (no
\* client, model not updated); with an apiKey it resolves, the agent has a
\* client and keeps the id it was constructed with.
C23_InitRequiresApiKey ==
    [][call' = "init"
         => LET initConfig == lastOptions'
            IN  IF "apiKey" \notin DOMAIN initConfig \/ initConfig.apiKey \in {Undefined, ""}
                THEN /\ outcome' = Failed("OpenAI API key is required")
                     /\ openaiAgent' = openaiAgent
                     /\ llmCalls' = llmCalls
                ELSE /\ outcome'.status = "resolved"
                     /\ openaiAgent'.id = openaiAgent.id
                     /\ openaiAgent'.client]_vars

\* init without a key on a fresh agent, a model being asked for
C23_Witness ==
    /\ call = "init"
    /\ lastOptions = [model |-> "gpt-3.5-turbo"]
    /\ outcome = Failed("OpenAI API key is required")
    /\ openaiAgent = OpenAIAgentNew("custom")

\* init with a key and a model
C23_WitnessWithKey ==
    /\ call = "init"
    /\ lastOptions = [apiKey |-> "sk-1", model |-> "gpt-3.5-turbo"]
    /\ outcome.status = "resolved"
    /\ openaiAgent = [OpenAIAgentNew("custom") EXCEPT !.client = TRUE,
                                                    !.model = "gpt-3.5-turbo"]

\* C24: executeTask rejects with "Unknown task: <task>" for every task name
\* other than generate-test, analyze-code and suggest-improvements, and sends
\* no completion request; generate-test sends one request and, the API having
\* replied, resolves with an object whose testCode is the reply.
C24_ExecuteTaskDispatch ==
    [][call' = "executeTask"
         => LET task == lastOptions'.task
                api == lastOptions'.api
            IN  /\ task \notin {"generate-test", "analyze-code", "suggest-improvements"}
                     => /\ outcome' = Failed("Unknown task: " \o task)
                        /\ llmCalls' = llmCalls
                /\ (task = "generate-test" /\ openaiAgent.client /\ ~api.threw)
                     => /\ outcome' = Fulfilled([testCode |-> api.value])
                        /\ llmCalls' = llmCalls + 1
                /\ (task = "generate-test" /\ (~openaiAgent.client \/ api.threw))
                     => /\ outcome'.status = "rejected"
                        /\ HasPrefix(outcome'.message, "Failed to generate completion: ")]_vars

\* an initialised agent refused an unknown task without contacting the API
C24_Witness ==
    /\ call = "executeTask"
    /\ lastOptions.task = "unknown-task"
    /\ openaiAgent.client
    /\ llmCalls = 0
    /\ outcome = Failed("Unknown task: unknown-task")

\* generate-test returned the reply as testCode
C24_WitnessGenerateTest ==
    /\ call = "executeTask"
    /\ lastOptions.task = "generate-test"
    /\ llmCalls = 1
    /\ outcome = Fulfilled([testCode |-> TextReply])

\* C25: generateTestCases, the source being readable and the agent having a
\* client, sends one completion request; a reply that is valid JSON is
\* returned parsed; a reply that is not makes the call reject with a message
\* containing "Failed to parse test cases", and no test cases are returned.
C25_GenerateTestCasesParsesReply ==
    [][call' = "generateTestCases"
         => LET api == lastOptions'.api
            IN  (lastOptions'.readable /\ openaiAgent.client)
                  => /\ llmCalls' = llmCalls + 1
                     /\ (~api.threw /\ api.value.kind = "json")
                          => /\ outcome' = Fulfilled(api.value.doc)
                             /\ testCases' = api.value.doc
                     /\ (~api.threw /\ api.value.kind # "json")
                          => /\ outcome'.status = "rejected"
                             /\ Contains(outcome'.message, "Failed to parse test cases")
                             /\ testCases' = NoValue]_vars

\* a reply that is no JSON
C25_Witness ==
    /\ call = "generateTestCases"
    /\ lastOptions = [readable |-> TRUE, api |-> Resolved(TextReply)]
    /\ llmCalls = 1
    /\ testCases = NoValue
    /\ outcome = Failed("Failed to generate test cases: Failed to parse test cases: "
                        \o "Unexpected token o in JSON at position 1")

\* a reply that is a JSON array of test cases
C25_WitnessParsed ==
    /\ call = "generateTestCases"
    /\ lastOptions = [readable |-> TRUE, api |-> Resolved(CasesReply)]
    /\ llmCalls = 1
    /\ outcome = Fulfilled(CasesReply.doc)

\* C26: with no OpenAI API key in the configuration AgentManager.initialize
\* registers no agent, custom openai-type agents included, and a following
\* generateAndRunTests rejects with "Failed to generate and run tests: No
\* agents available" before any completion request, test-file write or runner
\* invocation.
C26_NoKeyNoAgent ==
    ~Truthy(config.apiKeys.openai)
        => /\ agents = <<>>
           /\ call = "generateAndRunTests"
                => /\ pc = "rejected"
                   /\ outcome = Failed("Failed to generate and run tests: No agents available")
                   /\ steps = <<>>
                   /\ llmCalls = 0
                   /\ TestFileUntouched
                   /\ exec = NoValue
                   /\ NothingReported

\* no key, one custom openai-type agent configured: its init failed and the
\* call was refused
C26_Witness ==
    /\ config.apiKeys.openai = Undefined
    /\ Len(config.agents) = 1
    /\ call = "generateAndRunTests"
    /\ pc = "rejected"
    /\ faults = {"noAgent"}
    /\ outcome.message = "Failed to generate and run tests: No agents available"

\* C27: runTests of either runner never rejects: however the process settles
\* (exit 0 or not, stdout empty, text or JSON) and whatever the decoder makes of
\* the document (a document without the expected properties included), the call
\* resolves with a sequence of TestResults.
C27_RunTestsNeverRejects ==
    RanTests
        => /\ pc # "rejected"
           /\ outcome.status = "resolved"
           /\ outcome.value = results
           /\ \A i \in 1..Len(results) :
                /\ DOMAIN results[i] = {"testId", "passed", "error", "duration"}
                /\ results[i].passed \in BOOLEAN

\* exit 0 with a JSON document that has no testResults: the decoder's TypeError
\* ends in the synthetic result
C27_Witness ==
    /\ RanTests
    /\ runner = "jest"
    /\ ~exec.threw
    /\ exec.value.stdout = JsonStdout([numTotalTests |-> 0])
    /\ outcome.status = "resolved"
    /\ IsExecutionError(results)

\* a failed Playwright process
C27_WitnessPlaywright ==
    /\ RanTests
    /\ runner = "playwright"
    /\ exec.threw
    /\ outcome.status = "resolved"
    /\ IsExecutionError(outcome.value)

\* the registry as with the entries of one id left out, order kept
Without(as, agentId) == SelectSeq(as, LAMBDA a : a.id # agentId)

\* C28: over any sequence of registerAgent / unregisterAgent calls the
\* registry holds at most one agent per id; registering a new id appends it,
\* registering an existing id replaces that agent where it stands;
\* unregisterAgent returns true iff the id was present and removes that id
\* only; getDefaultAgent leaves the registry alone, returns the agent standing
\* first (the earliest-registered one still present) and throws "No agents
\* available" exactly when the registry is empty.
C28_RegistryDiscipline ==
    [][/\ \A i, j \in 1..Len(agents') : agents'[i].id = agents'[j].id => i = j
       /\ call' = "registerAgent"
            => LET a == lastOptions'.agent
               IN  IF \E i \in 1..Len(agents) : agents[i].id = a.id
                   THEN /\ Len(agents') = Len(agents)
                        /\ \A i \in 1..Len(agents) :
                             agents'[i] = IF agents[i].id = a.id THEN a ELSE agents[i]
                   ELSE agents' = Append(agents, a)
       /\ call' = "unregisterAgent"
            => LET agentId == lastOptions'.agentId
               IN  /\ outcome' = Fulfilled(\E i \in 1..Len(agents) : agents[i].id = agentId)
                   /\ agents' = Without(agents, agentId)
                   /\ \A i \in 1..Len(agents') : agents'[i].id # agentId
       /\ call' = "getDefaultAgent"
            => /\ agents' = agents
               /\ outcome' = IF Len(agents) = 0 THEN Failed("No agents available")
                             ELSE Fulfilled(agents[1])
       /\ call' \notin {"registerAgent", "unregisterAgent"} => agents' = agents]_vars

\* the id standing first of two was registered again: the new agent took its place
C28_Witness ==
    /\ call = "registerAgent"
    /\ Len(agents) = 2
    /\ agents[1] = lastOptions.agent
    /\ agents[1].id = "openai-default"
    /\ agents[1].client
    /\ agents[2].id = "custom"

\* the first of two agents was removed: the second is the default now
C28_WitnessUnregister ==
    /\ call = "unregisterAgent"
    /\ lastOptions.agentId = "openai-default"
    /\ outcome = Fulfilled(TRUE)
    /\ Len(agents) = 1
    /\ GetDefaultAgent(agents).value.id = "custom"

\* getDefaultAgent on the empty registry, an agent having been constructed
C28_WitnessEmpty ==
    /\ call = "getDefaultAgent"
    /\ agents = <<>>
    /\ openaiAgent # NoValue
    /\ outcome = Failed("No agents available")

\* C29: reports are not written atomically: when the report of the k-th
\* requested format fails (unsupported format or I/O error) the k-1 reports
\* written before it are still on disk, no later format is attempted, and the
\* TestManager call rejects without the analysis although the tests ran and
\* were aggregated.
C29_ReportsNotAtomic ==
    (call \in {"generateAndRunTests", "runExistingTests"} /\ "report" \in faults)
        => LET k == Len(reportPaths) + 1
           IN  /\ pc = "rejected"
               /\ outcome.status = "rejected"
               /\ "value" \notin DOMAIN outcome
               /\ k <= Len(formats)
               /\ lastOptions.format = formats[k]
               /\ \A i \in 1..(k - 1) :
                    /\ reportPaths[i] \in DOMAIN files
                    /\ HasSuffix(reportPaths[i], "." \o formats[i])
               /\ ReportFilesOnDisk = Range(reportPaths)
               /\ "run" \in Range(steps) /\ "aggregate" \in Range(steps)
               /\ analysis = AnalyzeResults(runner, results)

\* the JSON report was written, then the second format was refused
C29_Witness ==
    /\ call = "runExistingTests"
    /\ formats = <<"json", "html">>
    /\ pc = "rejected"
    /\ Len(reportPaths) = 1
    /\ reportPaths[1] \in DOMAIN files
    /\ outcome.message = "Failed to run existing tests: Unsupported report format: html"

\* the JSON report was written, then the XML report could not be
C29_WitnessIo ==
    /\ call = "generateAndRunTests"
    /\ formats = <<"json", "xml">>
    /\ pc = "rejected"
    /\ Cardinality(ReportFilesOnDisk) = 1
    /\ HasPrefix(outcome.message, "Failed to generate and run tests: EACCES")

\* the test file, as runExistingTests read it, contains the text s
TestFileHas(s) ==
    /\ "detect" \notin faults
    /\ TestPath \in DOMAIN files
    /\ \E fragment \in files[TestPath].idioms : Contains(fragment, s)

\* the framework of the first matching rule, in the order Jest, Mocha,
\* Playwright, Cypress, else Jest
FirstMatch ==
    IF TestFileHas("describe") /\ TestFileHas("test(") /\ TestFileHas("expect(") THEN "jest"
    ELSE IF TestFileHas("describe") /\ TestFileHas("it(") /\ TestFileHas("expect(") THEN "mocha"
    ELSE IF TestFileHas("test.describe") \/ TestFileHas("page.goto") THEN "playwright"
    ELSE IF TestFileHas("cy.visit") \/ TestFileHas("cy.get") THEN "cypress"
    ELSE "jest"

\* C30: runExistingTests takes the framework of the first rule the file's
\* content matches, in the order Jest (describe, test( and expect(), Mocha
\* (describe, it( and expect(), Playwright (test.describe or page.goto), Cypress
\* (cy.visit or cy.get), and Jest when nothing matches or the file cannot be
\* read; Jest and Mocha files are run and decoded by the Jest runner,
\* Playwright and Cypress files by the Playwright runner.
C30_FrameworkByFirstMatch ==
    (call = "runExistingTests" /\ "detect" \in Range(steps))
        => /\ framework = FirstMatch
           /\ "run" \in Range(steps)
                => /\ runner = IF framework \in {"jest", "mocha"} THEN "jest" ELSE "playwright"
                   /\ exec \in ExecOutcomes(PipelineDocs(runner))
                   /\ pc # "rejected"
                        => results = IF runner = "jest" THEN JestRunTests(exec).value
                                     ELSE PlaywrightRunTests(exec).value

\* a file with describe, cy.visit( and expect( matched the Mocha rule ("it(" is
\* part of "cy.visit(") and was run by the Jest runner
C30_Witness ==
    /\ call = "runExistingTests"
    /\ TestPath \in DOMAIN files
    /\ files[TestPath] = CodeReply({"describe(", "cy.visit(", "expect("})
    /\ "detect" \notin faults
    /\ framework = "mocha"
    /\ runner = "jest"
    /\ pc = "resolved"

\* a Cypress file run by the Playwright runner
C30_WitnessCypress ==
    /\ call = "runExistingTests"
    /\ framework = "cypress"
    /\ runner = "playwright"
    /\ results = PlaywrightRunTests(exec).value
    /\ pc = "resolved"

\* an unreadable test file defaulted to Jest
C30_WitnessUnreadable ==
    /\ call = "runExistingTests"
    /\ "detect" \in faults
    /\ TestPath \in DOMAIN files
    /\ framework = "jest"
    /\ runner = "jest"

====
